---- MODULE Spec2Model ----
(***************************************************************************)
(* TownWatch: the Document normalizer (models/Document.js), the cloud row  *)
(* and update mappings (services/SupabaseStorageService.js), the query     *)
(* engine (services/SearchService.js), FilterOptions, and the controller   *)
(* over the local store (context/DocumentContext.js,                       *)
(* services/StorageService.js), with its calls run one after the other and *)
(* overlapping, as state machines over JavaScript values.                  *)
(***************************************************************************)
EXTENDS FiniteSets, Integers, Sequences, TLC

(***************************************************************************)
(* JavaScript values.  Every value carries its typeof tag, so that the     *)
(* operators ||, ??, typeof and property access can be computed as the     *)
(* language computes them.                                                 *)
(***************************************************************************)
Undefined == [t |-> "undefined"]
Null == [t |-> "null"]
Str(s) == [t |-> "string", v |-> s]
Bool(b) == [t |-> "boolean", v |-> b]
Obj(r) == [t |-> "object", v |-> r]
Arr(s) == [t |-> "array", v |-> s]
EmptyObject == Obj([k \in {} |-> Undefined])

\* ToBoolean: undefined, null, "" and false are falsy
Truthy(x) ==
    /\ x.t \notin {"undefined", "null"}
    /\ ~(x.t = "string" /\ x.v = "")
    /\ ~(x.t = "boolean" /\ x.v = FALSE)

\* a || b
Or(a, b) == IF Truthy(a) THEN a ELSE b

\* a ?? b
Nullish(a, b) == IF a.t \in {"undefined", "null"} THEN b ELSE a

\* o.k on a value that is not null or undefined (a missing property reads undefined)
Get(o, k) == IF o.t = "object" /\ k \in DOMAIN o.v THEN o.v[k] ELSE Undefined

\* o?.k
OptGet(o, k) == IF o.t \in {"undefined", "null"} THEN Undefined ELSE Get(o, k)

\* Array.isArray
IsArray(x) == x.t = "array"

\* parts.join(',')
RECURSIVE JoinWithoutSpace(_)
JoinWithoutSpace(parts) ==
    IF Len(parts) = 0 THEN ""
    ELSE IF Len(parts) = 1 THEN parts[1]
    ELSE parts[1] \o "," \o JoinWithoutSpace(Tail(parts))

\* parts.join(', ') over an array of strings
RECURSIVE Join(_)
Join(parts) ==
    IF Len(parts) = 0 THEN ""
    ELSE IF Len(parts) = 1 THEN parts[1]
    ELSE parts[1] \o ", " \o Join(Tail(parts))

\* array.indexOf(value) (1-based; 0 when absent)
IndexOf(array, value) ==
    IF \E i \in 1..Len(array) : array[i] = value
    THEN CHOOSE i \in 1..Len(array) :
            array[i] = value /\ \A j \in 1..(i - 1) : array[j] # value
    ELSE 0

\* array.filter(keep): the elements array[i] with keep[i], in order
RECURSIVE FilterFrom(_, _, _)
FilterFrom(array, keep, i) ==
    IF i > Len(array) THEN << >>
    ELSE (IF keep[i] THEN <<array[i]>> ELSE << >>) \o FilterFrom(array, keep, i + 1)

Filter(array, keep) == FilterFrom(array, keep, 1)

(***************************************************************************)
(* Document                                                                *)
(***************************************************************************)
ParamKeys ==
    {"id", "title", "content", "date", "document_date", "documentDate",
     "source", "source_name", "sourceName", "source_id", "sourceId",
     "source_type", "sourceType", "jurisdiction", "state", "state_name",
     "stateName", "state_code", "stateCode", "country", "country_name",
     "countryName", "topics", "document_topics", "url", "createdAt",
     "created_at", "scraped_at", "isFavorite", "is_favorite"}

DocKeys ==
    {"id", "title", "content", "date", "sourceId", "sourceType", "source",
     "state", "country", "jurisdiction", "topics", "url", "createdAt",
     "isFavorite"}

\* addTopic without the unwrapping of a nested topic
addTopicWithoutWrapper(topic) ==
    IF ~Truthy(topic) THEN << >>
    ELSE IF topic.t = "string" THEN <<topic>>
    ELSE IF Truthy(Get(topic, "name")) THEN <<Get(topic, "name")>>
    ELSE << >>

\* addTopic: the names one element of a topics array contributes
RECURSIVE addTopic(_)
addTopic(topic) ==
    IF ~Truthy(topic) THEN << >>
    ELSE IF topic.t = "string" THEN <<topic>>
    ELSE IF Truthy(Get(topic, "name")) THEN <<Get(topic, "name")>>
    ELSE IF Truthy(Get(topic, "topic")) THEN addTopic(Get(topic, "topic"))
    ELSE << >>

RECURSIVE Collect(_)
Collect(elements) ==
    IF Len(elements) = 0 THEN << >>
    ELSE addTopic(Head(elements)) \o Collect(Tail(elements))

\* normalizeTopics without the final filter
normalizeTopicsKeepingDuplicates(explicitTopics, relatedTopics) ==
    Arr((IF IsArray(explicitTopics) THEN Collect(explicitTopics.v) ELSE << >>)
        \o (IF IsArray(relatedTopics) THEN Collect(relatedTopics.v) ELSE << >>))

\* static normalizeTopics(explicitTopics, relatedTopics)
normalizeTopics(explicitTopics, relatedTopics) ==
    LET collected ==
            (IF IsArray(explicitTopics) THEN Collect(explicitTopics.v) ELSE << >>)
            \o (IF IsArray(relatedTopics) THEN Collect(relatedTopics.v) ELSE << >>)
        first == [i \in 1..Len(collected) |-> IndexOf(collected, collected[i]) = i]
    IN  Arr(Filter(collected, first))

\* generateId: a timestamp and a random suffix, here one of the ids gid
generateId(gid) == Str(gid)

\* sourceObject without the fallback to {}
SourceObjectNoDefault(source) ==
    IF source.t = "string" THEN Obj([name |-> source]) ELSE source

\* const sourceObject = typeof source === 'string' ? { name: source } : source || {}
SourceObject(source) ==
    IF source.t = "string" THEN Obj([name |-> source]) ELSE Or(source, EmptyObject)

\* the first of the three date fields that is not null or undefined
resolveDateFirstNonNull(date, document_date, documentDate) ==
    Nullish(date, Nullish(document_date, Nullish(documentDate, Null)))

\* this.date = date || document_date || documentDate || null
resolveDate(date, document_date, documentDate) ==
    Or(Or(Or(date, document_date), documentDate), Null)

\* the source with the flattened names tried before the name of the object
resolveSourceAliasesFirst(sourceObject, source_name, sourceName) ==
    Nullish(source_name, Nullish(sourceName, Nullish(Get(sourceObject, "name"), Null)))

\* this.source = sourceObject.name ?? source_name ?? sourceName ?? null
resolveSource(sourceObject, source_name, sourceName) ==
    Nullish(Get(sourceObject, "name"), Nullish(source_name, Nullish(sourceName, Null)))

\* a property read on null or undefined raises a TypeError
ReadThrows(o) == o.t \in {"undefined", "null"}

\* new Document(params) raises: the destructuring of a null params, or one of
\* the unguarded property reads sourceObject.name and sourceObject.state
DocumentThrows(params) ==
    \/ params = Null
    \/ ReadThrows(SourceObject(Get(params, "source")))

\* new Document(params): params is an object or undefined; gid is the id
\* generateId would return and now is new Date().toISOString()
Document(params, gid, now) ==
    LET p == IF params = Undefined THEN EmptyObject ELSE params
        P(k) == Get(p, k)
        topics == IF P("topics") = Undefined THEN Arr(<< >>) ELSE P("topics")
        url == IF P("url") = Undefined THEN Null ELSE P("url")
        sourceObject == SourceObject(P("source"))
        stateObject ==
            Or(Or(P("state"), Get(sourceObject, "state")),
               IF Truthy(Or(Or(Or(P("state_name"), P("stateName")),
                               P("state_code")), P("stateCode")))
               THEN Obj([name |-> Nullish(P("state_name"),
                                          Nullish(P("stateName"), Null)),
                         code |-> Nullish(P("state_code"),
                                          Nullish(P("stateCode"), Null))])
               ELSE Null)
        countryObject ==
            Or(Or(P("country"), OptGet(stateObject, "country")),
               IF Truthy(Or(P("country_name"), P("countryName")))
               THEN Obj([name |-> Nullish(P("country_name"),
                                          Nullish(P("countryName"), Null))])
               ELSE Null)
        stateName == OptGet(stateObject, "name")
        countryName == OptGet(countryObject, "name")
        jurisdictionParts ==
            (IF Truthy(stateName) THEN <<stateName.v>> ELSE << >>)
            \o (IF Truthy(countryName) /\ countryName # stateName
                THEN <<countryName.v>> ELSE << >>)
    IN  [id |-> Or(P("id"), generateId(gid)),
         title |-> P("title"),
         content |-> P("content"),
         date |-> resolveDate(P("date"), P("document_date"), P("documentDate")),
         sourceId |-> Nullish(P("source_id"), Nullish(P("sourceId"), Null)),
         sourceType |-> Nullish(P("source_type"), Nullish(P("sourceType"), Null)),
         source |-> resolveSource(sourceObject, P("source_name"), P("sourceName")),
         state |-> Or(stateObject, Null),
         country |-> Or(countryObject, Null),
         jurisdiction |-> Nullish(P("jurisdiction"), Str(Join(jurisdictionParts))),
         topics |-> normalizeTopics(topics, P("document_topics")),
         url |-> url,
         createdAt |-> Or(Or(Or(P("createdAt"), P("created_at")), P("scraped_at")),
                          Str(now)),
         isFavorite |-> IF P("isFavorite").t = "boolean" THEN P("isFavorite")
                        ELSE Bool(Truthy(P("is_favorite")))]

\* toJSON with the id left out
toJSONWithoutId(this) ==
    Obj([title |-> this.title,
         content |-> this.content,
         document_date |-> this.date,
         source_id |-> this.sourceId,
         source_type |-> this.sourceType,
         jurisdiction |-> this.jurisdiction,
         topics |-> this.topics,
         url |-> this.url,
         created_at |-> this.createdAt,
         is_favorite |-> this.isFavorite])

\* document.toJSON()
toJSON(this) ==
    LET json == [title |-> this.title,
                 content |-> this.content,
                 document_date |-> this.date,
                 source_id |-> this.sourceId,
                 source_type |-> this.sourceType,
                 jurisdiction |-> this.jurisdiction,
                 topics |-> this.topics,
                 url |-> this.url,
                 created_at |-> this.createdAt,
                 is_favorite |-> this.isFavorite]
        withSource == IF Truthy(this.source) THEN [source |-> this.source] @@ json
                      ELSE json
        withId == IF Truthy(this.id) THEN [id |-> this.id] @@ withSource
                  ELSE withSource
    IN  Obj(withId)

\* Document.fromJSON(json)
fromJSON(json, gid, now) == Document(json, gid, now)

\* JSON.parse(JSON.stringify(value)): a property whose value is undefined is
\* left out of an object, and an undefined array element becomes null
RECURSIVE JSONRoundTrip(_)
JSONRoundTrip(value) ==
    IF value.t = "object"
    THEN LET kept == {k \in DOMAIN value.v : value.v[k] # Undefined}
         IN  Obj([k \in kept |-> JSONRoundTrip(value.v[k])])
    ELSE IF value.t = "array"
    THEN Arr([i \in 1..Len(value.v) |->
                IF value.v[i] = Undefined THEN Null ELSE JSONRoundTrip(value.v[i])])
    ELSE value

(***************************************************************************)
(* Raw records: the inputs of the normalizer                               *)
(***************************************************************************)
MaxPresent == 2

UnitedStates == Obj([id |-> Str("c1"), name |-> Str("United States"), code |-> Str("US")])
Maryland ==
    Obj([id |-> Str("st1"), name |-> Str("Maryland"), code |-> Str("MD"),
         country |-> UnitedStates])
CountyCouncil ==
    Obj([id |-> Str("s1"), name |-> Str("County Council"),
         source_type |-> Str("council"), state |-> Maryland])
BudgetRelation == Obj([topic |-> Obj([id |-> Str("t1"), name |-> Str("Budget"),
                                      slug |-> Str("budget")])])
ClimateRelation == Obj([topic |-> Obj([id |-> Str("t2"), name |-> Str("Climate"),
                                       slug |-> Str("climate")])])

\* the values a raw record may carry under key k (besides leaving k out)
KeyDomain(k) ==
    CASE k = "id" -> {Str("d1"), Null}
      [] k \in {"title", "content"} -> {Str("Budget Hearing"), Null}
      [] k \in {"date", "documentDate"} -> {Str("2024-10-15"), Null}
      [] k = "document_date" -> {Str("2024-11-01"), Str("")}
      [] k = "source" ->
            {Str("City Council"), CountyCouncil, Obj([id |-> Str("s3")]), Str(""), Null}
      [] k = "source_name" -> {Str("Planning Commission"), Null}
      [] k = "sourceName" -> {Str("Parks and Recreation")}
      [] k \in {"source_id", "source_type"} -> {Str("s1"), Null}
      [] k \in {"sourceId", "sourceType"} -> {Str("s2")}
      [] k = "jurisdiction" -> {Str("Oakland, CA"), Str(""), Null}
      [] k = "state" -> {Maryland, Obj([name |-> Str("Texas")]), Null}
      [] k = "state_name" -> {Str("Maryland"), Null}
      [] k = "stateName" -> {Str("Texas")}
      [] k = "state_code" -> {Str("MD")}
      [] k = "stateCode" -> {Str("TX")}
      [] k = "country" -> {UnitedStates, Obj([name |-> Str("Maryland")]), Null}
      [] k = "country_name" -> {Str("United States"), Str("Maryland")}
      [] k = "countryName" -> {Str("Canada")}
      [] k = "topics" ->
            {Arr(<<Str("Budget"), Str("Housing"), Str("Budget")>>), Arr(<< >>), Null,
             Arr(<<Str("Parks"), Null, Obj([name |-> Str("Zoning")]), Str(""),
                   Obj([topic |-> Str("Transit")]), EmptyObject, ClimateRelation,
                   Obj([id |-> Str("t9")]), Obj([topic |-> Null])>>),
             Arr(<<Obj([topic |-> BudgetRelation]), Undefined,
                   Obj([topic |-> EmptyObject])>>)}
      [] k = "document_topics" ->
            {Arr(<<ClimateRelation, BudgetRelation, ClimateRelation>>),
             Arr(<<Null, EmptyObject, Obj([name |-> Str("Zoning")]), Str("Budget")>>),
             Null}
      [] k = "url" -> {Str("https://example.gov/m1"), Null}
      [] k \in {"createdAt", "scraped_at"} -> {Str("2024-01-01T00:00:00Z"), Null}
      [] k = "created_at" -> {Str("2024-02-02T00:00:00Z")}
      [] k = "isFavorite" -> {Bool(TRUE), Bool(FALSE), Null}
      [] k = "is_favorite" -> {Bool(TRUE), Bool(FALSE)}

KeyOrder ==
    <<"id", "title", "content", "date", "document_date", "documentDate",
      "source", "source_name", "sourceName", "source_id", "sourceId",
      "source_type", "sourceType", "jurisdiction", "state", "state_name",
      "stateName", "state_code", "stateCode", "country", "country_name",
      "countryName", "topics", "document_topics", "url", "createdAt",
      "created_at", "scraped_at", "isFavorite", "is_favorite">>

\* the records over the keys KeyOrder[i..] with at most n keys present
RECURSIVE SparseRecords(_, _)
SparseRecords(i, n) ==
    IF i > Len(KeyOrder) \/ n = 0 THEN {[k \in {} |-> Undefined]}
    ELSE SparseRecords(i + 1, n) \cup
         {(KeyOrder[i] :> v) @@ r :
            v \in KeyDomain(KeyOrder[i]), r \in SparseRecords(i + 1, n - 1)}

\* a record of the flat shape (utils/sampleData.js)
FlatRecord ==
    [title |-> Str("Budget Hearing"), content |-> Str("The council convened."),
     date |-> Str("2024-10-15"), source |-> Str("City Council"),
     jurisdiction |-> Str("San Francisco, CA"),
     topics |-> Arr(<<Str("Budget"), Str("Housing")>>),
     url |-> Str("https://example.gov/m1")]

\* a row of the relational shape, with the nesting the cloud select returns
RelationalRow ==
    [id |-> Str("d1"), title |-> Str("Budget Hearing"),
     content |-> Str("The council convened."), document_date |-> Str("2024-11-01"),
     url |-> Null, created_at |-> Str("2024-02-02T00:00:00Z"),
     is_favorite |-> Bool(FALSE), source |-> CountyCouncil,
     document_topics |-> Arr(<<BudgetRelation, ClimateRelation>>)]

\* a source that has no state (sources.state_id may be null)
CityClerk ==
    Obj([id |-> Str("s2"), name |-> Str("City Clerk"),
         source_type |-> Str("clerk"), state |-> Null])

\* the rows the cloud select returns: the source with or without a state, and
\* any number of topic relations, one of which may have lost its topic
CloudRows ==
    {[k \in DOMAIN RelationalRow |->
        IF k = "source" THEN source
        ELSE IF k = "document_topics" THEN relations
        ELSE RelationalRow[k]] :
        source \in {CountyCouncil, CityClerk},
        relations \in {Arr(<< >>), Arr(<<BudgetRelation, ClimateRelation>>),
                       Arr(<<ClimateRelation, Obj([topic |-> Null]), BudgetRelation>>)}}

\* the object the row mapping of getAllDocuments hands to Document.fromJSON
MapRow(row) ==
    LET topics == IF IsArray(Get(row, "document_topics"))
                  THEN Get(row, "document_topics").v ELSE << >>
        names == [i \in 1..Len(topics) |-> OptGet(OptGet(topics[i], "topic"), "name")]
        source == Get(row, "source")
    IN  Obj([topics |-> Arr(Filter(names, [i \in 1..Len(names) |-> Truthy(names[i])])),
             document_topics |-> Arr(topics),
             source |-> source,
             state |-> OptGet(source, "state"),
             country |-> OptGet(OptGet(source, "state"), "country")] @@ row.v)

\* 'key' in updates
In(key, updates) == key \in DOMAIN updates.v

\* a payload field that is set when one of the aliases is in the updates
PayloadField(updates, aliases, field, value) ==
    IF \E i \in 1..Len(aliases) : In(aliases[i], updates)
    THEN (field :> value) ELSE [k \in {} |-> Undefined]

\* mapUpdatesToSupabase(updates = {})
mapUpdatesToSupabase(given) ==
    LET updates == IF given = Undefined THEN EmptyObject ELSE given
        U(k) == Get(updates, k)
    IN  Obj(PayloadField(updates, <<"title">>, "title", U("title"))
            @@ PayloadField(updates, <<"content">>, "content", U("content"))
            @@ PayloadField(updates, <<"date", "document_date", "documentDate">>,
                            "document_date",
                            Nullish(U("document_date"), Nullish(U("documentDate"), U("date"))))
            @@ PayloadField(updates, <<"sourceId", "source_id">>, "source_id",
                            Nullish(U("sourceId"), U("source_id")))
            @@ PayloadField(updates, <<"url">>, "url", U("url"))
            @@ PayloadField(updates, <<"createdAt", "created_at">>, "created_at",
                            Nullish(U("createdAt"), U("created_at")))
            @@ PayloadField(updates, <<"isFavorite", "is_favorite">>, "is_favorite",
                            Nullish(U("isFavorite"), U("is_favorite"))))

\* r with the keys of a set left out
Without(r, keys) == [k \in (DOMAIN r) \ keys |-> r[k]]

\* r with one key set to null
WithNull(r, key) == [k \in DOMAIN r |-> IF k = key THEN Null ELSE r[k]]

DenseRecords ==
    UNION {{r, Without(r, {k}), WithNull(r, k)} :
             <<r, k>> \in {<<r, k>> \in {FlatRecord, RelationalRow} \X ParamKeys :
                             k \in DOMAIN r}}

\* the raw inputs: no input at all, or an object
RawInputs(n) ==
    {Undefined} \cup
    {Obj(r) : r \in SparseRecords(1, n) \cup DenseRecords \cup CloudRows}

GenIds == {"doc_1700000000000_abc", "doc_1700000000001_xyz"}
Clock == {"2025-01-01T00:00:00Z", "2025-01-02T00:00:00Z"}

(***************************************************************************)
(* The normalizer as a state machine: a raw record is normalized,          *)
(* serialized, and normalized again, directly or through the stored JSON.  *)
(***************************************************************************)
VARIABLES raw, doc, json, reloaded, dpc

\* the arguments and the result of a call of the query engine (see below)
VARIABLES qDocuments, qOptions, qSortBy, qOrder, qResult, qpc

\* the documents and the options as they were handed to the call
VARIABLES qGiven

\* the local store (the JSON array under the storage key), the controller's
\* documents state, what getAllTopics, getAllJurisdictions and getAllSources
\* last returned, the controller's position and the operations run so far
VARIABLES cStore, cDocuments, cListed, cpc, cOps

docVars == <<raw, doc, json, reloaded, dpc>>

queryVars == <<qDocuments, qOptions, qSortBy, qOrder, qResult, qpc, qGiven>>

ctlVars == <<cStore, cDocuments, cListed, cpc, cOps>>

\* a FilterOptions object that a caller holds, the object as it was before
\* the last assignment to it, what was last done to it, and what
\* hasActiveFilters gave back since
VARIABLES fObject, fBefore, fLast, fActive

filterVars == <<fObject, fBefore, fLast, fActive>>

\* the local store and the controller's documents state under calls that may
\* overlap: the stored JSON array, the documents state, each call with its
\* arguments, its position and what it read and returned, and the number of
\* calls begun
VARIABLES oStore, oDocuments, oCalls, oCount

\* the controller's filterOptions, sortBy, sortOrder and filteredDocuments
\* states, and whether the provider is still mounted
VARIABLES oFilterOptions, oSortBy, oSortOrder, oFiltered, oView

callVars ==
    <<oStore, oDocuments, oCalls, oCount,
      oFilterOptions, oSortBy, oSortOrder, oFiltered, oView>>

\* a raw record is at hand; the query engine is not in use
DocInit ==
    /\ raw \in RawInputs(MaxPresent)
    /\ doc = Undefined
    /\ json = Undefined
    /\ reloaded = Undefined
    /\ dpc = "raw"
    /\ qDocuments = << >>
    /\ qOptions = Undefined
    /\ qSortBy = Undefined
    /\ qOrder = Undefined
    /\ qResult = [threw |-> FALSE, value |-> << >>]
    /\ qpc = "off"
    /\ qGiven = Undefined
    /\ cStore = << >>
    /\ cDocuments = << >>
    /\ cListed = Undefined
    /\ cpc = "off"
    /\ cOps = 0
    /\ fObject = Undefined
    /\ fBefore = Undefined
    /\ fLast = "off"
    /\ fActive = Undefined
    /\ oStore = << >>
    /\ oDocuments = << >>
    /\ oCalls = << >>
    /\ oCount = 0
    /\ oFilterOptions = Undefined
    /\ oSortBy = Undefined
    /\ oSortOrder = Undefined
    /\ oFiltered = << >>
    /\ oView = "off"

\* new Document(raw)
NewDocument ==
    /\ dpc = "raw"
    /\ IF DocumentThrows(raw)
       THEN dpc' = "threw" /\ doc' = doc
       ELSE /\ \E gid \in GenIds, now \in Clock : doc' = Document(raw, gid, now)
            /\ dpc' = "document"
    /\ UNCHANGED <<raw, json, reloaded>>
    /\ UNCHANGED queryVars
    /\ UNCHANGED ctlVars
    /\ UNCHANGED <<filterVars, callVars>>

\* doc.toJSON()
Serialize ==
    /\ dpc = "document"
    /\ json' = toJSON(doc)
    /\ dpc' = "json"
    /\ UNCHANGED <<raw, doc, reloaded>>
    /\ UNCHANGED queryVars
    /\ UNCHANGED ctlVars
    /\ UNCHANGED <<filterVars, callVars>>

\* Document.fromJSON(doc.toJSON()).  The serialized form has the id and the
\* created_at of the document, so that neither generateId nor the clock
\* decides anything here.
Normalize ==
    /\ dpc = "json"
    /\ reloaded' = fromJSON(json, "doc_1700000000000_abc", "2025-01-01T00:00:00Z")
    /\ dpc' = "normalized"
    /\ UNCHANGED <<raw, doc, json>>
    /\ UNCHANGED queryVars
    /\ UNCHANGED ctlVars
    /\ UNCHANGED <<filterVars, callVars>>

\* saveDocuments then getAllDocuments: the JSON text is written and parsed back
SaveAndLoad ==
    /\ dpc = "json"
    /\ reloaded' = fromJSON(JSONRoundTrip(json), "doc_1700000000000_abc",
                            "2025-01-01T00:00:00Z")
    /\ dpc' = "loaded"
    /\ UNCHANGED <<raw, doc, json>>
    /\ UNCHANGED queryVars
    /\ UNCHANGED ctlVars
    /\ UNCHANGED <<filterVars, callVars>>

\* getAllDocuments of the cloud store, for one row of the selected data
LoadRow ==
    /\ dpc = "raw"
    /\ raw \in {Obj(r) : r \in CloudRows}
    /\ \E gid \in GenIds, now \in Clock : doc' = fromJSON(MapRow(raw), gid, now)
    /\ dpc' = "fetched"
    /\ UNCHANGED <<raw, json, reloaded>>
    /\ UNCHANGED queryVars
    /\ UNCHANGED ctlVars
    /\ UNCHANGED <<filterVars, callVars>>

\* updateDocument of the cloud store with the raw record as the updates: the
\* payload it sends, beside the record the normalizer builds from them
MapUpdates ==
    /\ dpc = "document"
    /\ json' = mapUpdatesToSupabase(raw)
    /\ dpc' = "mapped"
    /\ UNCHANGED <<raw, doc, reloaded>>
    /\ UNCHANGED queryVars
    /\ UNCHANGED ctlVars
    /\ UNCHANGED <<filterVars, callVars>>

DocNext ==
    NewDocument \/ Serialize \/ Normalize \/ SaveAndLoad \/ LoadRow \/ MapUpdates

(***************************************************************************)
(* Properties of the normalizer                                            *)
(***************************************************************************)
RawGet(k) == Get(raw, k)
Missing(keys) == \A k \in keys : RawGet(k) \in {Undefined, Null}

\* the fields the round trip is to preserve
RoundTripFields ==
    {"title", "content", "date", "source", "sourceId", "sourceType",
     "jurisdiction", "state", "country", "topics", "url", "isFavorite"}

\* C2: normalizing the serialized form of a canonical record, directly or
\* through the stored JSON text, gives back every field but id and createdAt
C2_RoundTrip ==
    dpc \in {"normalized", "loaded"} =>
        \A f \in RoundTripFields : reloaded[f] = doc[f]

\* C4 as claimed: a document built without an id serializes without an id
\* field, and one built with an id serializes with that id
C4_OmitsIdWhenNotPersisted ==
    dpc = "json" =>
        IF Truthy(RawGet("id"))
        THEN Get(json, "id") = RawGet("id")
        ELSE "id" \notin DOMAIN json.v

\* C4 amended: the serialized form always has an id field, the input's id
\* when the input had one and the id generated at construction otherwise
C4_AlwaysSerializesId ==
    dpc = "json" =>
        /\ "id" \in DOMAIN json.v
        /\ json.v.id = doc.id
        /\ IF Truthy(RawGet("id"))
           THEN json.v.id = RawGet("id")
           ELSE json.v.id \in {generateId(g) : g \in GenIds}

C4_Witness ==
    /\ dpc = "json"
    /\ ~Truthy(RawGet("id"))
    /\ Get(json, "id") \in {Str(g) : g \in GenIds}

StateKeys == {"state", "source", "state_name", "stateName", "state_code", "stateCode"}
CountryKeys == StateKeys \cup {"country", "country_name", "countryName"}

\* C7: the constructor does not throw, and a field none of whose inputs is
\* supplied takes its default
C7_DefaultsNoThrow ==
    /\ dpc # "threw"
    /\ dpc = "document" =>
        /\ Missing({"date", "document_date", "documentDate"}) => doc.date = Null
        /\ Missing({"source", "source_name", "sourceName"}) => doc.source = Null
        /\ Missing({"source_id", "sourceId"}) => doc.sourceId = Null
        /\ Missing({"source_type", "sourceType"}) => doc.sourceType = Null
        /\ Missing(StateKeys) => doc.state = Null
        /\ Missing(CountryKeys) => doc.country = Null
        /\ Missing({"url"}) => doc.url = Null
        /\ Missing({"topics", "document_topics"}) => doc.topics = Arr(<< >>)
        /\ Missing({"isFavorite", "is_favorite"}) => doc.isFavorite = Bool(FALSE)
        /\ Missing(CountryKeys \cup {"jurisdiction"}) => doc.jurisdiction = Str("")

C7_Witness ==
    /\ dpc = "document"
    /\ raw # Undefined
    /\ "source" \in DOMAIN raw.v /\ raw.v.source = Null
    /\ "jurisdiction" \in DOMAIN raw.v /\ raw.v.jurisdiction = Null
    /\ doc.source = Null
    /\ doc.jurisdiction = Str("")

(***************************************************************************)
(* Strings and dates as the query engine reads them                        *)
(***************************************************************************)
\* the characters of the strings that occur in titles, contents, sources,
\* jurisdictions and queries
CharTable ==
    [s \in {"", " ", "ta", "GRANT", "Tax", "tax", "Zoo", "Grant", "Board",
            "City", "Bay", "null", "undefined"} |->
        CASE s = "" -> << >>
          [] s = " " -> <<" ">>
          [] s = "ta" -> <<"t", "a">>
          [] s = "GRANT" -> <<"G", "R", "A", "N", "T">>
          [] s = "Tax" -> <<"T", "a", "x">>
          [] s = "tax" -> <<"t", "a", "x">>
          [] s = "Zoo" -> <<"Z", "o", "o">>
          [] s = "Grant" -> <<"G", "r", "a", "n", "t">>
          [] s = "Board" -> <<"B", "o", "a", "r", "d">>
          [] s = "City" -> <<"C", "i", "t", "y">>
          [] s = "Bay" -> <<"B", "a", "y">>
          [] s = "null" -> <<"n", "u", "l", "l">>
          [] s = "undefined" -> <<"u", "n", "d", "e", "f", "i", "n", "e", "d">>]

Chars(s) == CharTable[s]

LowerLetters ==
    <<"a", "b", "c", "d", "e", "f", "g", "h", "i", "j", "k", "l", "m",
      "n", "o", "p", "q", "r", "s", "t", "u", "v", "w", "x", "y", "z">>
UpperLetters ==
    <<"A", "B", "C", "D", "E", "F", "G", "H", "I", "J", "K", "L", "M",
      "N", "O", "P", "Q", "R", "S", "T", "U", "V", "W", "X", "Y", "Z">>

IsUpper(c) == \E i \in 1..Len(UpperLetters) : UpperLetters[i] = c

LowerChar(c) ==
    IF IsUpper(c)
    THEN LowerLetters[CHOOSE i \in 1..Len(UpperLetters) : UpperLetters[i] = c]
    ELSE c

\* String.prototype.toLowerCase, on the characters
toLowerCase(chars) == [i \in 1..Len(chars) |-> LowerChar(chars[i])]

\* String.prototype.includes, on the characters
includes(chars, query) ==
    \E i \in 0..(Len(chars) - Len(query)) :
        \A j \in 1..Len(query) : chars[i + j] = query[j]

\* String.prototype.trim() !== ''
NonBlank(chars) == \E i \in 1..Len(chars) : chars[i] # " "

\* the collation weight of a character: white space, then letters in
\* alphabetical order whatever their case
Weight(c) ==
    IF c = " " THEN 0
    ELSE CHOOSE i \in 1..Len(LowerLetters) : LowerLetters[i] = LowerChar(c)

RECURSIVE ComparePrimary(_, _)
ComparePrimary(a, b) ==
    IF Len(a) = 0 /\ Len(b) = 0 THEN 0
    ELSE IF Len(a) = 0 THEN -1
    ELSE IF Len(b) = 0 THEN 1
    ELSE IF Weight(Head(a)) < Weight(Head(b)) THEN -1
    ELSE IF Weight(Head(a)) > Weight(Head(b)) THEN 1
    ELSE ComparePrimary(Tail(a), Tail(b))

RECURSIVE CompareCase(_, _)
CompareCase(a, b) ==
    IF Len(a) = 0 \/ Len(b) = 0 THEN 0
    ELSE IF Head(a) = Head(b) THEN CompareCase(Tail(a), Tail(b))
    ELSE IF IsUpper(Head(b)) THEN -1
    ELSE 1

\* String.prototype.localeCompare: letters first, case as the tie-break with
\* lower case first
localeCompare(a, b) ==
    IF ComparePrimary(a, b) # 0 THEN ComparePrimary(a, b) ELSE CompareCase(a, b)

\* the instants the date strings denote, as the day since 1970-01-01 and the
\* hour of that day (UTC)
DateTable ==
    [s \in {"2024-10-15", "2024-10-20", "2024-10-20T12:00:00Z",
            "2024-10-20T15:00:00Z", "2024-11-01"} |->
        CASE s = "2024-10-15" -> [day |-> 20011, hour |-> 0]
          [] s = "2024-10-20" -> [day |-> 20016, hour |-> 0]
          [] s = "2024-10-20T12:00:00Z" -> [day |-> 20016, hour |-> 12]
          [] s = "2024-10-20T15:00:00Z" -> [day |-> 20016, hour |-> 15]
          [] s = "2024-11-01" -> [day |-> 20028, hour |-> 0]]

\* new Date(value).getTime(), in hours: new Date(null) is the epoch
DateTime(value) ==
    IF value = Null THEN 0
    ELSE DateTable[value.v].day * 24 + DateTable[value.v].hour

\* the calendar day of a date string
CalendarDay(value) == DateTable[value.v].day

(***************************************************************************)
(* FilterOptions and SearchService                                         *)
(***************************************************************************)
OptionKeys ==
    {"searchQuery", "selectedTopics", "startDate", "endDate", "jurisdictions",
     "sources", "favoritesOnly"}

OptionDefault(k) ==
    CASE k = "searchQuery" -> Str("")
      [] k \in {"selectedTopics", "jurisdictions", "sources"} -> Arr(<< >>)
      [] k \in {"startDate", "endDate"} -> Null
      [] k = "favoritesOnly" -> Bool(FALSE)

\* new FilterOptions(params): a default replaces a field that is undefined
FilterOptions(params) ==
    LET p == IF params = Undefined THEN EmptyObject ELSE params
    IN  Obj([k \in OptionKeys |->
                IF Get(p, k) = Undefined THEN OptionDefault(k) ELSE Get(p, k)])

\* what a call gives back: the returned array, or a raised TypeError
Returned(value) == [threw |-> FALSE, value |-> value]
Thrown == [threw |-> TRUE, value |-> << >>]

\* array.includes(value)
ArrayIncludes(array, value) == \E i \in 1..Len(array) : array[i] = value

\* the text predicate on one document: the four fields are read in turn, and
\* reading a field that is null or undefined raises
RECURSIVE TextMatch(_, _, _)
TextMatch(d, fields, query) ==
    IF Len(fields) = 0 THEN "drop"
    ELSE LET field == d[Head(fields)]
         IN  IF ReadThrows(field) THEN "throw"
             ELSE IF includes(toLowerCase(Chars(field.v)), query) THEN "keep"
             ELSE TextMatch(d, Tail(fields), query)

SearchFields == <<"title", "content", "source", "jurisdiction">>

TextStage(results, filterOptions) ==
    LET searchQuery == Get(filterOptions, "searchQuery")
    IN  IF Truthy(searchQuery) /\ NonBlank(Chars(searchQuery.v))
        THEN LET query == toLowerCase(Chars(searchQuery.v))
                 match == [i \in 1..Len(results) |->
                             TextMatch(results[i], SearchFields, query)]
             IN  IF \E i \in 1..Len(results) : match[i] = "throw" THEN Thrown
                 ELSE Returned(Filter(results, [i \in 1..Len(results) |->
                                                  match[i] = "keep"]))
        ELSE Returned(results)

\* a stage that reads .length of a list field of the options
ListStage(results, filterOptions, key, Keep(_, _)) ==
    LET list == Get(filterOptions, key)
    IN  IF ReadThrows(list) THEN Thrown
        ELSE IF Len(list.v) > 0
        THEN Returned(Filter(results, [i \in 1..Len(results) |->
                                         Keep(results[i], list.v)]))
        ELSE Returned(results)

HasAnyTopic(d, selectedTopics) ==
    \E i \in 1..Len(selectedTopics) : ArrayIncludes(d.topics.v, selectedTopics[i])
InJurisdictions(d, jurisdictions) == ArrayIncludes(jurisdictions, d.jurisdiction)
InSources(d, sources) == ArrayIncludes(sources, d.source)

TopicStage(results, filterOptions) ==
    ListStage(results, filterOptions, "selectedTopics", HasAnyTopic)

StartDateStage(results, filterOptions) ==
    LET startDate == Get(filterOptions, "startDate")
    IN  IF Truthy(startDate)
        THEN Filter(results, [i \in 1..Len(results) |->
                                DateTime(results[i].date) >= DateTime(startDate)])
        ELSE results

EndDateStage(results, filterOptions) ==
    LET endDate == Get(filterOptions, "endDate")
    IN  IF Truthy(endDate)
        THEN Filter(results, [i \in 1..Len(results) |->
                                DateTime(results[i].date) <= DateTime(endDate)])
        ELSE results

JurisdictionStage(results, filterOptions) ==
    ListStage(results, filterOptions, "jurisdictions", InJurisdictions)

SourceStage(results, filterOptions) ==
    ListStage(results, filterOptions, "sources", InSources)

FavoritesStage(results, filterOptions) ==
    IF Truthy(Get(filterOptions, "favoritesOnly"))
    THEN Filter(results, [i \in 1..Len(results) |-> Truthy(results[i].isFavorite)])
    ELSE results

\* SearchService.searchDocuments(documents, filterOptions)
searchDocuments(documents, filterOptions) ==
    LET text == TextStage(documents, filterOptions)
        topics == IF text.threw THEN Thrown ELSE TopicStage(text.value, filterOptions)
        dated == EndDateStage(StartDateStage(topics.value, filterOptions), filterOptions)
        inJurisdiction ==
            IF topics.threw THEN Thrown
            ELSE JurisdictionStage(dated, filterOptions)
        fromSource ==
            IF inJurisdiction.threw THEN Thrown
            ELSE SourceStage(inJurisdiction.value, filterOptions)
    IN  IF fromSource.threw THEN Thrown
        ELSE Returned(FavoritesStage(fromSource.value, filterOptions))

\* String(value), as localeCompare converts its argument
StringOf(value) ==
    IF value = Null THEN "null" ELSE IF value = Undefined THEN "undefined" ELSE value.v

\* a.key.localeCompare(b.key): reading the method of a null or undefined key raises
CompareKeys(a, b) ==
    IF ReadThrows(a) THEN Thrown
    ELSE Returned(localeCompare(Chars(a.v), Chars(StringOf(b))))

\* the comparator of sortDocuments, before the direction is applied
Comparison(a, b, sortBy) ==
    IF sortBy = Str("title") THEN CompareKeys(a.title, b.title)
    ELSE IF sortBy = Str("jurisdiction") THEN CompareKeys(a.jurisdiction, b.jurisdiction)
    ELSE IF sortBy = Str("source") THEN CompareKeys(a.source, b.source)
    ELSE Returned(DateTime(a.date) - DateTime(b.date))

\* function sortDocuments(documents, sortBy = 'date', order = 'desc')
DefaultSortBy(sortBy) == IF sortBy = Undefined THEN Str("date") ELSE sortBy

\* a default direction that depends on the key
DefaultOrderAscendingForStrings(sortBy, order) ==
    IF order # Undefined THEN order
    ELSE IF DefaultSortBy(sortBy) = Str("date") THEN Str("desc") ELSE Str("asc")

\* order = 'desc'
DefaultOrder(sortBy, order) == IF order = Undefined THEN Str("desc") ELSE order

Comparator(a, b, sortBy, order) ==
    LET comparison == Comparison(a, b, DefaultSortBy(sortBy))
    IN  IF comparison.threw THEN Thrown
        ELSE IF DefaultOrder(sortBy, order) = Str("asc")
        THEN Returned(comparison.value)
        ELSE Returned(-comparison.value)

\* Array.prototype.sort is a stable sort; which element of a pair it hands to
\* the comparator first is the engine's choice (pivotFirst).  Here: insertion
\* of the element at index x into the sorted indices, from the right.
RECURSIVE Insert(_, _, _, _)
Insert(sorted, x, compare, pivotFirst) ==
    IF Len(sorted) = 0 THEN Returned(<<x>>)
    ELSE LET y == sorted[Len(sorted)]
             c == IF pivotFirst THEN compare[<<x, y>>] ELSE compare[<<y, x>>]
         IN  IF c.threw THEN Thrown
             ELSE IF (IF pivotFirst THEN c.value < 0 ELSE c.value > 0)
             THEN LET front == Insert(SubSeq(sorted, 1, Len(sorted) - 1), x,
                                      compare, pivotFirst)
                  IN  IF front.threw THEN Thrown
                      ELSE Returned(Append(front.value, y))
             ELSE Returned(Append(sorted, x))

RECURSIVE SortIndices(_, _, _, _)
SortIndices(n, i, compare, pivotFirst) ==
    IF i = 0 THEN Returned(<< >>)
    ELSE LET before == SortIndices(n, i - 1, compare, pivotFirst)
         IN  IF before.threw THEN Thrown
             ELSE Insert(before.value, i, compare, pivotFirst)

\* SearchService.sortDocuments(documents, sortBy, order)
sortDocuments(documents, sortBy, order, pivotFirst) ==
    LET n == Len(documents)
        compare == [pair \in (1..n) \X (1..n) |->
                      Comparator(documents[pair[1]], documents[pair[2]], sortBy, order)]
        indices == SortIndices(n, n, compare, pivotFirst)
    IN  IF indices.threw THEN Thrown
        ELSE Returned([i \in 1..n |-> documents[indices.value[i]]])

(***************************************************************************)
(* The query engine as a state machine: calls of searchDocuments and       *)
(* sortDocuments on a collection of canonical records                      *)
(***************************************************************************)
MaxDocs == 2

QueryRecords ==
    {[id |-> Str("d1"), title |-> Str("Tax"), content |-> Str("Grant"),
      date |-> Str("2024-10-15"), source |-> Str("Board"),
      jurisdiction |-> Str("Bay"), topics |-> Arr(<<Str("Budget")>>),
      isFavorite |-> Bool(TRUE)],
     [id |-> Str("d2"), title |-> Str("tax"), content |-> Str("Grant"),
      document_date |-> Str("2024-10-20T15:00:00Z"), source |-> Str("City"),
      jurisdiction |-> Str("Bay"), topics |-> Arr(<<Str("Housing")>>)],
     [id |-> Str("d3"), title |-> Str("Zoo"), content |-> Str(""),
      topics |-> Arr(<<Str("Budget"), Str("Housing")>>)],
     [id |-> Str("d4"), date |-> Str("2024-10-20"), source |-> Str("City"),
      jurisdiction |-> Str("Bay")],
     [id |-> Str("d5"), title |-> Str("Tax"), content |-> Str("Grant"),
      date |-> Str("2024-10-15"), source |-> Str("Board"),
      jurisdiction |-> Str("Bay"), topics |-> Arr(<<Str("Budget")>>)],
     [id |-> Str("d6"), title |-> Str("Zoo"), content |-> Str("Grant"),
      date |-> Str("2024-11-01"), source |-> Str("Board"),
      topics |-> Arr(<<Str("Budget")>>)]}

\* the canonical records the collection is drawn from
CanonicalRecords ==
    {Document(Obj(r), "doc_1700000000000_abc", "2025-01-01T00:00:00Z") :
        r \in QueryRecords}

\* the sequences over a set, up to a length
RECURSIVE SeqsUpTo(_, _)
SeqsUpTo(S, n) ==
    IF n = 0 THEN {<< >>}
    ELSE LET shorter == SeqsUpTo(S, n - 1)
         IN  shorter \cup {Append(q, x) : q \in shorter, x \in S}

\* FilterOptions objects with every field set
FullOptions ==
    {FilterOptions(Obj(o)) :
        o \in [searchQuery : {Str(""), Str(" "), Str("ta"), Str("GRANT")},
               selectedTopics : {Arr(<< >>), Arr(<<Str("Budget")>>),
                                 Arr(<<Str("Budget"), Str("Housing")>>)},
               startDate : {Null, Str("2024-10-20"), Str("2024-10-20T12:00:00Z")},
               endDate : {Null, Str("2024-10-20"), Str("2024-10-15")},
               jurisdictions : {Arr(<< >>), Arr(<<Str("Bay")>>)},
               sources : {Arr(<< >>), Arr(<<Str("Board"), Str("City")>>)},
               favoritesOnly : {Bool(FALSE), Bool(TRUE)}]}

\* plain objects that lack some of the fields
PlainOptions ==
    {Obj(Without(o.v, keys)) :
        o \in {FilterOptions(Undefined),
               FilterOptions(Obj([searchQuery |-> Str("ta")])),
               FilterOptions(Obj([endDate |-> Str("2024-10-20"),
                                  favoritesOnly |-> Bool(TRUE)]))},
        keys \in {ks \in SUBSET OptionKeys : Cardinality(ks) \in 1..2}}

SortKeys == {Undefined, Str("date"), Str("title"), Str("jurisdiction"), Str("source")}
SortOrders == {Undefined, Str("asc"), Str("desc")}

\* a collection of canonical records is at hand; the normalizer is not in use
QueryInit ==
    /\ qDocuments \in SeqsUpTo(CanonicalRecords, MaxDocs)
    /\ qOptions = Undefined
    /\ qSortBy = Undefined
    /\ qOrder = Undefined
    /\ qResult = Returned(<< >>)
    /\ qpc = "idle"
    /\ qGiven = Undefined
    /\ raw = Undefined
    /\ doc = Undefined
    /\ json = Undefined
    /\ reloaded = Undefined
    /\ dpc = "idle"
    /\ cStore = << >>
    /\ cDocuments = << >>
    /\ cListed = Undefined
    /\ cpc = "off"
    /\ cOps = 0
    /\ fObject = Undefined
    /\ fBefore = Undefined
    /\ fLast = "off"
    /\ fActive = Undefined
    /\ oStore = << >>
    /\ oDocuments = << >>
    /\ oCalls = << >>
    /\ oCount = 0
    /\ oFilterOptions = Undefined
    /\ oSortBy = Undefined
    /\ oSortOrder = Undefined
    /\ oFiltered = << >>
    /\ oView = "off"

\* SearchService.searchDocuments(qDocuments, filterOptions): results is a new
\* array at every assignment, and the options are only read
CallSearch ==
    /\ qpc = "idle"
    /\ \E filterOptions \in FullOptions \cup PlainOptions :
          /\ qOptions' = filterOptions
          /\ qResult' = searchDocuments(qDocuments, filterOptions)
          /\ qGiven' = [documents |-> qDocuments, options |-> filterOptions]
    /\ qpc' = "searched"
    /\ UNCHANGED <<qDocuments, qSortBy, qOrder>>
    /\ UNCHANGED docVars
    /\ UNCHANGED ctlVars
    /\ UNCHANGED <<filterVars, callVars>>

\* the array that sorted.sort() rearranges, were sorted the input itself
SortedArrayIsInput == "documents"

\* const sorted = [...documents]: sorted is a new array
SortedArray == "sorted"

\* the arrays after sortDocuments: Array.prototype.sort rearranges the array
\* it is called on, and that array is returned
sortDocumentsArrays(documents, sortBy, order, pivotFirst) ==
    LET given == ("documents" :> documents)
        copied == (SortedArray :> given["documents"]) @@ given
        outcome == sortDocuments(copied[SortedArray], sortBy, order, pivotFirst)
        arrays == IF outcome.threw THEN copied
                  ELSE (SortedArray :> outcome.value) @@ copied
    IN  [documents |-> arrays["documents"], result |-> outcome]

\* the UTF-16 code unit of a character
CodeUnit(c) ==
    IF c = " " THEN 32
    ELSE IF c = "," THEN 44
    ELSE IF IsUpper(c)
    THEN 64 + (CHOOSE i \in 1..Len(UpperLetters) : UpperLetters[i] = c)
    ELSE 96 + (CHOOSE i \in 1..Len(LowerLetters) : LowerLetters[i] = c)

\* the order of two strings by their code units
RECURSIVE CodeUnitCompare(_, _)
CodeUnitCompare(a, b) ==
    IF Len(a) = 0 /\ Len(b) = 0 THEN 0
    ELSE IF Len(a) = 0 THEN -1
    ELSE IF Len(b) = 0 THEN 1
    ELSE IF CodeUnit(Head(a)) < CodeUnit(Head(b)) THEN -1
    ELSE IF CodeUnit(Head(a)) > CodeUnit(Head(b)) THEN 1
    ELSE CodeUnitCompare(Tail(a), Tail(b))

\* the comparison of array.sort() without a comparator: undefined goes last,
\* any other two values are compared as strings, by code units
DefaultCompare(a, b) ==
    IF a = Undefined /\ b = Undefined THEN 0
    ELSE IF a = Undefined THEN 1
    ELSE IF b = Undefined THEN -1
    ELSE CodeUnitCompare(Chars(StringOf(a)), Chars(StringOf(b)))

\* Array.from(set) as it comes, without the sort
Unsorted(values) == values

\* array.sort()
DefaultSort(values) ==
    LET n == Len(values)
        compare == [pair \in (1..n) \X (1..n) |->
                      Returned(DefaultCompare(values[pair[1]], values[pair[2]]))]
        indices == SortIndices(n, n, compare, TRUE)
    IN  [i \in 1..n |-> values[indices.value[i]]]

\* Array.from(new Set(values)): each value once, in the order of insertion
ArrayFromSet(values) ==
    Filter(values, [i \in 1..Len(values) |-> IndexOf(values, values[i]) = i])

\* the topics of all the documents, in turn
RECURSIVE AllTopics(_)
AllTopics(documents) ==
    IF Len(documents) = 0 THEN << >>
    ELSE Head(documents).topics.v \o AllTopics(Tail(documents))

\* SearchService.getAllTopics(documents)
getAllTopics(documents) == DefaultSort(ArrayFromSet(AllTopics(documents)))

\* SearchService.getAllJurisdictions(documents)
getAllJurisdictions(documents) ==
    DefaultSort(ArrayFromSet([i \in 1..Len(documents) |-> documents[i].jurisdiction]))

\* SearchService.getAllSources(documents)
getAllSources(documents) ==
    DefaultSort(ArrayFromSet([i \in 1..Len(documents) |-> documents[i].source]))

\* SearchService.sortDocuments(qDocuments, sortBy, order)
CallSort ==
    /\ qpc = "idle"
    /\ \E sortBy \in SortKeys, order \in SortOrders, pivotFirst \in BOOLEAN :
          LET after == sortDocumentsArrays(qDocuments, sortBy, order, pivotFirst)
          IN  /\ qSortBy' = sortBy
              /\ qOrder' = order
              /\ qDocuments' = after.documents
              /\ qResult' = after.result
    /\ qGiven' = [documents |-> qDocuments, options |-> Undefined]
    /\ qpc' = "sorted"
    /\ UNCHANGED qOptions
    /\ UNCHANGED docVars
    /\ UNCHANGED ctlVars
    /\ UNCHANGED <<filterVars, callVars>>

QueryNext == CallSearch \/ CallSort

(***************************************************************************)
(* The local store and the controller (DocumentProvider) as a state        *)
(* machine: each operation runs to its end, the storage call and the       *)
(* update of the documents state included, before the next one starts      *)
(***************************************************************************)
MaxOps == 3

\* the raw records that are added
CtlRecords ==
    {[id |-> Str("d1"), title |-> Str("Tax"), content |-> Str("Grant"),
      date |-> Str("2024-10-15"), source |-> Str("City"),
      jurisdiction |-> Str("Bay"), topics |-> Arr(<<Str("Zoo"), Str("Tax")>>),
      created_at |-> Str("2024-02-02T00:00:00Z")],
     [title |-> Str("Zoo"), content |-> Str(""),
      topics |-> Arr(<<Str("tax"), Str("Zoo"), Str("tax")>>),
      created_at |-> Str("2024-02-02T00:00:00Z")],
     [id |-> Str("d2"), title |-> Str("Grant"), content |-> Str("Tax"),
      source |-> Str("Board"), jurisdiction |-> Str("City"),
      created_at |-> Str("2024-02-02T00:00:00Z")]}

\* the updates that are applied
CtlUpdates ==
    {[topics |-> Arr(<<Str("Grant")>>)],
     [source |-> Str("Zoo"), jurisdiction |-> Str("Board")]}

\* the ids an operation may name: those of the collection, and one of no document
CtlIds == {cDocuments[i].id : i \in 1..Len(cDocuments)} \cup {Str("d9")}

\* StorageService.getAllDocuments: the stored array, each element normalized.
\* A stored element has the id and the created_at that toJSON wrote, so that
\* neither generateId nor the clock decides anything here.
storedDocuments(stored) ==
    [i \in 1..Len(stored) |->
        fromJSON(stored[i], "doc_1700000000000_abc", "2025-01-01T00:00:00Z")]

\* StorageService.saveDocuments: the JSON text of the serialized documents,
\* as it is parsed back
savedDocuments(documents) ==
    [i \in 1..Len(documents) |-> JSONRoundTrip(toJSON(documents[i]))]

\* AsyncStorage.setItem: the key holds the new value, unless the write fails
\* (saveDocuments then returns false, which its callers do not look at)
setItem(stored, value, written) == IF written THEN value ELSE stored

\* documents.findIndex(doc => doc.id === id) (1-based; 0 when there is none)
findIndex(documents, id) ==
    IF \E i \in 1..Len(documents) : documents[i].id = id
    THEN CHOOSE i \in 1..Len(documents) :
            documents[i].id = id /\ \A j \in 1..(i - 1) : documents[j].id # id
    ELSE 0

\* { ...document, ...updates }
Merged(document, updates) == Obj(updates @@ document)

\* loadDocuments (also refreshDocuments)
CtlLoad ==
    /\ cpc \in {"ready", "listed"} /\ cOps < MaxOps
    /\ cDocuments' = storedDocuments(cStore)
    /\ cpc' = "ready" /\ cOps' = cOps + 1
    /\ UNCHANGED <<cStore, cListed>>
    /\ UNCHANGED <<docVars, queryVars>>
    /\ UNCHANGED <<filterVars, callVars>>

\* addDocument(documentData): StorageService.addDocument, then setDocuments
CtlAdd ==
    /\ cpc \in {"ready", "listed"} /\ cOps < MaxOps
    /\ \E documentData \in CtlRecords, gid \in GenIds, now \in Clock,
          written \in BOOLEAN :
          LET stored == storedDocuments(cStore)
              newDoc == Document(Obj(documentData), gid, now)
          IN  /\ cStore' = setItem(cStore, savedDocuments(Append(stored, newDoc)),
                                   written)
              /\ cDocuments' = Append(cDocuments, newDoc)
    /\ cpc' = "ready" /\ cOps' = cOps + 1
    /\ UNCHANGED cListed
    /\ UNCHANGED <<docVars, queryVars>>
    /\ UNCHANGED <<filterVars, callVars>>

\* updateDocument(id, updates): StorageService.updateDocument, then setDocuments
CtlUpdate ==
    /\ cpc \in {"ready", "listed"} /\ cOps < MaxOps
    /\ \E id \in CtlIds, updates \in CtlUpdates, written \in BOOLEAN :
          LET stored == storedDocuments(cStore)
              index == findIndex(stored, id)
              updated == Document(Merged(stored[index], updates),
                                  "doc_1700000000000_abc", "2025-01-01T00:00:00Z")
          IN  IF index # 0
              THEN /\ cStore' = setItem(cStore,
                                        savedDocuments([stored EXCEPT ![index] = updated]),
                                        written)
                   /\ cDocuments' = [i \in 1..Len(cDocuments) |->
                                       IF cDocuments[i].id = id THEN updated
                                       ELSE cDocuments[i]]
              ELSE UNCHANGED <<cStore, cDocuments>>
    /\ cpc' = "ready" /\ cOps' = cOps + 1
    /\ UNCHANGED cListed
    /\ UNCHANGED <<docVars, queryVars>>
    /\ UNCHANGED <<filterVars, callVars>>

\* deleteDocument(id): StorageService.deleteDocument, then setDocuments
CtlDelete ==
    /\ cpc \in {"ready", "listed"} /\ cOps < MaxOps
    /\ \E id \in CtlIds, written \in BOOLEAN :
          LET stored == storedDocuments(cStore)
          IN  /\ cStore' = setItem(cStore,
                                   savedDocuments(Filter(stored,
                                       [i \in 1..Len(stored) |-> stored[i].id # id])),
                                   written)
              /\ cDocuments' = Filter(cDocuments, [i \in 1..Len(cDocuments) |->
                                                     cDocuments[i].id # id])
    /\ cpc' = "ready" /\ cOps' = cOps + 1
    /\ UNCHANGED cListed
    /\ UNCHANGED <<docVars, queryVars>>
    /\ UNCHANGED <<filterVars, callVars>>

\* getAllTopics(), getAllJurisdictions() and getAllSources() of the current render
CtlListAll ==
    /\ cpc = "ready"
    /\ cListed' = [topics |-> getAllTopics(cDocuments),
                   jurisdictions |-> getAllJurisdictions(cDocuments),
                   sources |-> getAllSources(cDocuments)]
    /\ cpc' = "listed"
    /\ UNCHANGED <<cStore, cDocuments, cOps>>
    /\ UNCHANGED <<docVars, queryVars>>
    /\ UNCHANGED <<filterVars, callVars>>

\* the provider is mounted over an empty store
CtlInit ==
    /\ cStore = << >>
    /\ cDocuments = << >>
    /\ cListed = Undefined
    /\ cpc = "ready"
    /\ cOps = 0
    /\ raw = Undefined
    /\ doc = Undefined
    /\ json = Undefined
    /\ reloaded = Undefined
    /\ dpc = "idle"
    /\ qDocuments = << >>
    /\ qOptions = Undefined
    /\ qSortBy = Undefined
    /\ qOrder = Undefined
    /\ qResult = [threw |-> FALSE, value |-> << >>]
    /\ qpc = "off"
    /\ qGiven = Undefined
    /\ fObject = Undefined
    /\ fBefore = Undefined
    /\ fLast = "off"
    /\ fActive = Undefined
    /\ oStore = << >>
    /\ oDocuments = << >>
    /\ oCalls = << >>
    /\ oCount = 0
    /\ oFilterOptions = Undefined
    /\ oSortBy = Undefined
    /\ oSortOrder = Undefined
    /\ oFiltered = << >>
    /\ oView = "off"

CtlNext == CtlLoad \/ CtlAdd \/ CtlUpdate \/ CtlDelete \/ CtlListAll

(***************************************************************************)
(* FilterOptions as a state machine: an object is built, a caller that     *)
(* holds it assigns to its fields, asks hasActiveFilters and resets it     *)
(***************************************************************************)
\* x.length: a TypeError on null and undefined, the length of a string or
\* array, undefined on anything else
LengthThrows(x) == ReadThrows(x)

LengthPositive(x) ==
    CASE x.t = "string" -> x.v # ""
      [] x.t = "array" -> Len(x.v) > 0
      [] OTHER -> FALSE

\* hasActiveFilters that does not look at the two date bounds
hasActiveFiltersWithoutDates(this) ==
    LET o == this.v
    IN  IF LengthThrows(o.searchQuery) THEN Thrown
        ELSE IF LengthPositive(o.searchQuery) THEN Returned(Bool(TRUE))
        ELSE IF LengthThrows(o.selectedTopics) THEN Thrown
        ELSE IF LengthPositive(o.selectedTopics) THEN Returned(Bool(TRUE))
        ELSE IF LengthThrows(o.jurisdictions) THEN Thrown
        ELSE IF LengthPositive(o.jurisdictions) THEN Returned(Bool(TRUE))
        ELSE IF LengthThrows(o.sources) THEN Thrown
        ELSE IF LengthPositive(o.sources) THEN Returned(Bool(TRUE))
        ELSE Returned(o.favoritesOnly)

\* hasActiveFilters(): the || chain, left to right, stops at the first true
\* operand and gives back favoritesOnly itself when none is
hasActiveFilters(this) ==
    LET o == this.v
    IN  IF LengthThrows(o.searchQuery) THEN Thrown
        ELSE IF LengthPositive(o.searchQuery) THEN Returned(Bool(TRUE))
        ELSE IF LengthThrows(o.selectedTopics) THEN Thrown
        ELSE IF LengthPositive(o.selectedTopics) THEN Returned(Bool(TRUE))
        ELSE IF o.startDate # Null THEN Returned(Bool(TRUE))
        ELSE IF o.endDate # Null THEN Returned(Bool(TRUE))
        ELSE IF LengthThrows(o.jurisdictions) THEN Thrown
        ELSE IF LengthPositive(o.jurisdictions) THEN Returned(Bool(TRUE))
        ELSE IF LengthThrows(o.sources) THEN Thrown
        ELSE IF LengthPositive(o.sources) THEN Returned(Bool(TRUE))
        ELSE Returned(o.favoritesOnly)

\* reset that leaves favoritesOnly as it is
resetKeepingFavorites(this) ==
    Obj([k \in OptionKeys |->
            IF k = "favoritesOnly" THEN this.v[k] ELSE OptionDefault(k)])

\* reset(): every field of this is assigned its default
reset(this) == Obj([k \in OptionKeys |-> OptionDefault(k)])

\* the values a field is given: those of its type (an undefined argument of
\* the constructor is an omitted one), and for the text, the topics and the
\* start date also a null or an undefined that is not of the type
FieldValues(k) ==
    CASE k = "searchQuery" -> {Str(""), Str(" "), Str("ta"), Null}
      [] k = "selectedTopics" -> {Arr(<< >>), Arr(<<Str("Budget")>>), Null}
      [] k = "startDate" -> {Null, Str("2024-10-20"), Undefined}
      [] k = "endDate" -> {Null, Str("2024-10-20")}
      [] k = "jurisdictions" -> {Arr(<< >>), Arr(<<Str("Bay")>>)}
      [] k = "sources" -> {Arr(<< >>), Arr(<<Str("Board"), Str("City")>>)}
      [] k = "favoritesOnly" -> {Bool(FALSE), Bool(TRUE)}

\* the arguments of the constructor: nothing, or an object with up to
\* MaxGiven fields
MaxGiven == 2

FilterParams ==
    LET AnyValue == UNION {FieldValues(k) : k \in OptionKeys}
        Given(ks) == {r \in [ks -> AnyValue] : \A k \in ks : r[k] \in FieldValues(k)}
    IN  {Undefined} \cup
        {Obj(r) : r \in UNION {Given(ks) : ks \in {s \in SUBSET OptionKeys :
                                                      Cardinality(s) <= MaxGiven}}}

\* new FilterOptions(params)
FilterInit ==
    /\ \E params \in FilterParams : fObject = FilterOptions(params)
    /\ fBefore = Undefined
    /\ fLast = "new"
    /\ fActive = Undefined
    /\ raw = Undefined
    /\ doc = Undefined
    /\ json = Undefined
    /\ reloaded = Undefined
    /\ dpc = "idle"
    /\ qDocuments = << >>
    /\ qOptions = Undefined
    /\ qSortBy = Undefined
    /\ qOrder = Undefined
    /\ qResult = [threw |-> FALSE, value |-> << >>]
    /\ qpc = "off"
    /\ qGiven = Undefined
    /\ cStore = << >>
    /\ cDocuments = << >>
    /\ cListed = Undefined
    /\ cpc = "off"
    /\ cOps = 0
    /\ oStore = << >>
    /\ oDocuments = << >>
    /\ oCalls = << >>
    /\ oCount = 0
    /\ oFilterOptions = Undefined
    /\ oSortBy = Undefined
    /\ oSortOrder = Undefined
    /\ oFiltered = << >>
    /\ oView = "off"

\* filterOptions.k = value, by a caller that holds the object
AssignField ==
    /\ fLast # "off"
    /\ \E k \in OptionKeys : \E value \in FieldValues(k) :
          /\ fObject.v[k] # value
          /\ fObject' = Obj([fObject.v EXCEPT ![k] = value])
    /\ fBefore' = fObject
    /\ fLast' = "assign"
    /\ fActive' = Undefined
    /\ UNCHANGED <<docVars, queryVars, ctlVars, callVars>>

\* filterOptions.hasActiveFilters()
CallHasActiveFilters ==
    /\ fLast # "off"
    /\ fActive = Undefined
    /\ fActive' = hasActiveFilters(fObject)
    /\ UNCHANGED <<fObject, fBefore, fLast>>
    /\ UNCHANGED <<docVars, queryVars, ctlVars, callVars>>

\* filterOptions.reset()
CallReset ==
    /\ fLast # "off"
    /\ fObject' = reset(fObject)
    /\ fBefore' = fObject
    /\ fLast' = "reset"
    /\ fActive' = Undefined
    /\ UNCHANGED <<docVars, queryVars, ctlVars, callVars>>

FilterNext == AssignField \/ CallHasActiveFilters \/ CallReset

(***************************************************************************)
(* The local store and the controller under calls that run step by step:   *)
(* a call reads the stored array when its getItem is served, writes when   *)
(* its setItem is served, and the controller's continuation updates the    *)
(* documents state after the call has returned.  Other calls may take      *)
(* their steps in between.                                                 *)
(***************************************************************************)
\* the calls that may be in flight together
Calls == {1, 2}

\* how many operations of the controller are run one after the other
MaxCalls == 2

\* the id generateId gives to the document a call creates
CallGid(c) == IF c = 1 THEN "doc_1700000000000_abc" ELSE "doc_1700000000001_xyz"

\* the document that is in the store at the start
StoredAtStart ==
    [id |-> Str("d1"), title |-> Str("Tax"), content |-> Str("Grant"),
     date |-> Str("2024-10-15"), source |-> Str("City"),
     jurisdiction |-> Str("Bay"), topics |-> Arr(<<Str("Zoo")>>),
     created_at |-> Str("2024-02-02T00:00:00Z")]

\* the documentData of addDocument: a record with an id of its own, one
\* without an id, and null
CallRecords ==
    {Obj([id |-> Str("d1"), title |-> Str("Grant"), content |-> Str("Tax"),
          source |-> Str("Board"), created_at |-> Str("2024-03-03T00:00:00Z")]),
     Obj([title |-> Str("Zoo"), content |-> Str(""),
          created_at |-> Str("2024-02-02T00:00:00Z")]),
     Null}

\* the updates of updateDocument
CallUpdates ==
    {[date |-> Str("2024-11-01")],
     [document_date |-> Str("2024-11-01")],
     [is_favorite |-> Bool(TRUE)],
     [source_id |-> Str("s1")],
     [id |-> Str("d7")]}

\* the ids a call may name: those of the documents on screen, and one of no
\* document
CallIds == {oDocuments[i].id : i \in 1..Len(oDocuments)} \cup {Str("d9")}

NoCall ==
    [op |-> "none", id |-> Undefined, arg |-> Undefined, pc |-> "idle",
     stored |-> << >>, held |-> << >>, read |-> << >>, written |-> TRUE,
     returned |-> Undefined]

\* documents.find(doc => doc.id === id) succeeds
Found(documents, id) == findIndex(documents, id) # 0

\* the array a call hands to saveDocuments, from the documents it read
ToSave(call, gid) ==
    CASE call.op = "add" ->
            Append(call.read, Document(call.arg, gid, "2025-01-01T00:00:00Z"))
      [] call.op \in {"update", "toggle"} ->
            LET index == findIndex(call.read, call.id)
            IN  [call.read EXCEPT ![index] =
                    Document(Merged(call.read[index], call.arg.v), gid,
                             "2025-01-01T00:00:00Z")]
      [] call.op = "delete" ->
            Filter(call.read, [i \in 1..Len(call.read) |-> call.read[i].id # call.id])

\* what the call of the store returns after saveDocuments: the new document,
\* the updated document, or true
ToReturn(call, gid) ==
    CASE call.op = "add" -> Document(call.arg, gid, "2025-01-01T00:00:00Z")
      [] call.op \in {"update", "toggle"} ->
            ToSave(call, gid)[findIndex(call.read, call.id)]
      [] call.op = "delete" -> Bool(TRUE)

\* the continuation of the controller without its test of what was returned
settledUnguarded(call, documents) ==
    CASE call.op = "load" -> call.read
      [] call.op = "add" -> Append(documents, call.returned)
      [] call.op \in {"update", "toggle"} ->
            [i \in 1..Len(documents) |->
                IF documents[i].id = call.id THEN call.returned ELSE documents[i]]
      [] call.op = "delete" ->
            Filter(documents, [i \in 1..Len(documents) |-> documents[i].id # call.id])

\* the continuation of the controller after the call of the store returned:
\* setDocuments(docs), or setDocuments(prev => ...) when the call returned a
\* document (or true)
settled(call, documents) ==
    CASE call.op = "load" -> call.read
      [] call.op = "add" ->
            IF call.returned # Null THEN Append(documents, call.returned)
            ELSE documents
      [] call.op \in {"update", "toggle"} ->
            IF call.returned # Null
            THEN [i \in 1..Len(documents) |->
                    IF documents[i].id = call.id THEN call.returned
                    ELSE documents[i]]
            ELSE documents
      [] call.op = "delete" ->
            IF call.returned = Bool(TRUE)
            THEN Filter(documents, [i \in 1..Len(documents) |->
                                      documents[i].id # call.id])
            ELSE documents

\* applyFilters: searchDocuments, then sortDocuments of what it returned
applyFilters(documents, filterOptions, sortBy, sortOrder, pivotFirst) ==
    LET results == searchDocuments(documents, filterOptions)
    IN  IF results.threw THEN Thrown
        ELSE sortDocuments(results.value, sortBy, sortOrder, pivotFirst)

\* the effect that runs applyFilters after a render in which documents,
\* filterOptions, sortBy or sortOrder changed: setFilteredDocuments(results),
\* or, when applyFilters throws, the error leaves the effect and the provider
\* is unmounted
Effect(documents, filterOptions, sortBy, sortOrder) ==
    \E pivotFirst \in BOOLEAN :
        LET outcome == applyFilters(documents, filterOptions, sortBy, sortOrder,
                                    pivotFirst)
        IN  /\ oFiltered' = IF outcome.threw THEN oFiltered ELSE outcome.value
            /\ oView' = IF outcome.threw THEN "crashed" ELSE "mounted"

\* the newFilters of updateFilters
ViewFilters ==
    {Obj([searchQuery |-> Str("ta")]), Obj([favoritesOnly |-> Bool(TRUE)])}

\* the arguments of updateSort
ViewSorts ==
    {<<Str("title"), Str("asc")>>, <<Str("source"), Str("desc")>>,
     <<Str("date"), Str("desc")>>}

\* the call c is made and its first getItem is served: the call has what it
\* read, and has returned already when it found nothing to write
Begin(c) ==
    LET read == storedDocuments(oStore)
        call == [NoCall EXCEPT !.stored = oStore, !.held = oDocuments,
                               !.read = read]
    IN  /\ oView = "mounted"
        /\ oCount' = oCount + 1
        /\ UNCHANGED <<oStore, oDocuments>>
        /\ UNCHANGED <<oFilterOptions, oSortBy, oSortOrder, oFiltered, oView>>
        /\ \/ oCalls' = [oCalls EXCEPT ![c] =
                            [call EXCEPT !.op = "load", !.pc = "returned"]]
           \/ \E documentData \in CallRecords :
                 oCalls' = [oCalls EXCEPT ![c] =
                    [call EXCEPT !.op = "add", !.arg = documentData,
                                 !.pc = IF DocumentThrows(documentData)
                                        THEN "returned" ELSE "read",
                                 !.returned = IF DocumentThrows(documentData)
                                              THEN Null ELSE Undefined]]
           \/ \E id \in CallIds, updates \in CallUpdates :
                 oCalls' = [oCalls EXCEPT ![c] =
                    [call EXCEPT !.op = "update", !.id = id, !.arg = Obj(updates),
                                 !.pc = IF Found(read, id) THEN "read" ELSE "returned",
                                 !.returned = IF Found(read, id) THEN Undefined
                                              ELSE Null]]
           \/ \E id \in CallIds :
                 oCalls' = [oCalls EXCEPT ![c] =
                    [call EXCEPT !.op = "delete", !.id = id, !.pc = "read"]]
           \/ \E id \in CallIds :
                 oCalls' = [oCalls EXCEPT ![c] =
                    [call EXCEPT !.op = "toggle", !.id = id,
                                 !.arg = IF Found(read, id)
                                         THEN Obj([isFavorite |->
                                            Bool(~read[findIndex(read, id)].isFavorite.v)])
                                         ELSE Undefined,
                                 !.pc = IF Found(read, id) THEN "found" ELSE "returned",
                                 !.returned = IF Found(read, id) THEN Undefined
                                              ELSE Null]]

\* no call is in flight
Quiet == \A c \in Calls : oCalls[c].pc \in {"idle", "done"}

\* a call is made while no other is in flight
CallBeginsAlone ==
    /\ Quiet /\ oCount < MaxCalls
    /\ Begin(1)
    /\ UNCHANGED <<docVars, queryVars, ctlVars, filterVars>>

\* a call is made, whatever the other call is doing
CallBegins ==
    /\ \E c \in Calls :
          /\ oCalls[c].pc = "idle"
          /\ \A b \in Calls : b < c => oCalls[b].pc # "idle"
          /\ Begin(c)
    /\ UNCHANGED <<docVars, queryVars, ctlVars, filterVars>>

\* toggleFavorite found the document and calls updateDocument, whose own
\* getItem is served
ToggleRereads ==
    /\ \E c \in Calls :
          /\ oCalls[c].pc = "found"
          /\ LET read == storedDocuments(oStore)
             IN  oCalls' = [oCalls EXCEPT ![c] =
                    [@ EXCEPT !.read = read,
                              !.pc = IF Found(read, oCalls[c].id) THEN "read"
                                    ELSE "returned",
                              !.returned = IF Found(read, oCalls[c].id) THEN Undefined
                                           ELSE Null]]
    /\ UNCHANGED <<oStore, oDocuments, oCount>>
    /\ UNCHANGED <<oFilterOptions, oSortBy, oSortOrder, oFiltered, oView>>
    /\ UNCHANGED <<docVars, queryVars, ctlVars, filterVars>>

\* saveDocuments: the setItem of a call is served, or fails, and the call of
\* the store returns
CallWrites ==
    /\ \E c \in Calls, written \in BOOLEAN :
          /\ oCalls[c].pc = "read"
          /\ oStore' = setItem(oStore, savedDocuments(ToSave(oCalls[c], CallGid(c))),
                               written)
          /\ oCalls' = [oCalls EXCEPT ![c] =
                [@ EXCEPT !.written = written, !.pc = "returned",
                          !.returned = ToReturn(oCalls[c], CallGid(c))]]
    /\ UNCHANGED <<oDocuments, oCount>>
    /\ UNCHANGED <<oFilterOptions, oSortBy, oSortOrder, oFiltered, oView>>
    /\ UNCHANGED <<docVars, queryVars, ctlVars, filterVars>>

\* the continuation of the controller runs, and after the render the effect
\* (a provider that is unmounted ignores the update of its state)
CallSettles ==
    /\ \E c \in Calls :
          /\ oCalls[c].pc = "returned"
          /\ oCalls' = [oCalls EXCEPT ![c] = [@ EXCEPT !.pc = "done"]]
          /\ IF oView = "mounted"
             THEN /\ oDocuments' = settled(oCalls[c], oDocuments)
                  /\ Effect(oDocuments', oFilterOptions, oSortBy, oSortOrder)
             ELSE UNCHANGED <<oDocuments, oFiltered, oView>>
    /\ UNCHANGED <<oStore, oCount, oFilterOptions, oSortBy, oSortOrder>>
    /\ UNCHANGED <<docVars, queryVars, ctlVars, filterVars>>

\* updateFilters(newFilters) while no call is in flight, and after the render
\* the effect
UpdateFilters ==
    /\ oView = "mounted" /\ Quiet /\ oCount < MaxCalls
    /\ oCount' = oCount + 1
    /\ \E newFilters \in ViewFilters :
          /\ oFilterOptions' = FilterOptions(newFilters)
          /\ Effect(oDocuments, oFilterOptions', oSortBy, oSortOrder)
    /\ UNCHANGED <<oStore, oDocuments, oCalls, oSortBy, oSortOrder>>
    /\ UNCHANGED <<docVars, queryVars, ctlVars, filterVars>>

\* resetFilters(), and after the render the effect
ResetFilters ==
    /\ oView = "mounted" /\ Quiet /\ oCount < MaxCalls
    /\ oCount' = oCount + 1
    /\ oFilterOptions' = FilterOptions(Undefined)
    /\ Effect(oDocuments, oFilterOptions', oSortBy, oSortOrder)
    /\ UNCHANGED <<oStore, oDocuments, oCalls, oSortBy, oSortOrder>>
    /\ UNCHANGED <<docVars, queryVars, ctlVars, filterVars>>

\* updateSort(newSortBy, newSortOrder), and after the render the effect
UpdateSort ==
    /\ oView = "mounted" /\ Quiet /\ oCount < MaxCalls
    /\ oCount' = oCount + 1
    /\ \E sort \in ViewSorts :
          /\ oSortBy' = sort[1]
          /\ oSortOrder' = sort[2]
          /\ Effect(oDocuments, oFilterOptions, oSortBy', oSortOrder')
    /\ UNCHANGED <<oStore, oDocuments, oCalls, oFilterOptions>>
    /\ UNCHANGED <<docVars, queryVars, ctlVars, filterVars>>

\* the provider has loaded a store that is empty or holds one document
CallInit ==
    /\ oStore \in {<< >>, <<Obj(StoredAtStart)>>}
    /\ oDocuments = storedDocuments(oStore)
    /\ oCalls = [c \in Calls |-> NoCall]
    /\ oCount = 0
    /\ oFilterOptions = FilterOptions(Undefined)
    /\ oSortBy = Str("date")
    /\ oSortOrder = Str("desc")
    /\ oFiltered = oDocuments
    /\ oView = "mounted"
    /\ raw = Undefined
    /\ doc = Undefined
    /\ json = Undefined
    /\ reloaded = Undefined
    /\ dpc = "idle"
    /\ qDocuments = << >>
    /\ qOptions = Undefined
    /\ qSortBy = Undefined
    /\ qOrder = Undefined
    /\ qResult = [threw |-> FALSE, value |-> << >>]
    /\ qpc = "off"
    /\ qGiven = Undefined
    /\ cStore = << >>
    /\ cDocuments = << >>
    /\ cListed = Undefined
    /\ cpc = "off"
    /\ cOps = 0
    /\ fObject = Undefined
    /\ fBefore = Undefined
    /\ fLast = "off"
    /\ fActive = Undefined

SerialNext ==
    \/ CallBeginsAlone \/ ToggleRereads \/ CallWrites \/ CallSettles
    \/ UpdateFilters \/ ResetFilters \/ UpdateSort

OverlapNext == CallBegins \/ ToggleRereads \/ CallWrites \/ CallSettles

(***************************************************************************)
(* Specifications                                                          *)
(***************************************************************************)
vars == <<docVars, queryVars, ctlVars, filterVars, callVars>>

\* the normalizer alone
SpecDocument == DocInit /\ [][DocNext]_vars

\* the query engine alone
SpecQuery == QueryInit /\ [][QueryNext]_vars

\* the controller over the local store
SpecController == CtlInit /\ [][CtlNext]_vars

\* a FilterOptions object and the caller that holds it
SpecFilter == FilterInit /\ [][FilterNext]_vars

\* calls of the controller on the local store, one after the other
SpecSerial == CallInit /\ [][SerialNext]_vars

\* two calls of the controller on the local store that may overlap
SpecOverlap == CallInit /\ [][OverlapNext]_vars

(***************************************************************************)
(* Properties of the query engine                                          *)
(***************************************************************************)
\* the list a criterion holds; a missing list holds nothing
ListOf(options, key) ==
    IF Get(options, key).t = "array" THEN Get(options, key).v ELSE << >>

QueryOf(options) ==
    IF Get(options, "searchQuery").t = "string"
    THEN Chars(Get(options, "searchQuery").v) ELSE << >>

\* the criteria as the specification states them
TextSatisfied(d, options) ==
    NonBlank(QueryOf(options)) =>
        \E i \in 1..Len(SearchFields) :
            /\ d[SearchFields[i]].t = "string"
            /\ includes(toLowerCase(Chars(d[SearchFields[i]].v)),
                        toLowerCase(QueryOf(options)))
TopicsSatisfied(d, options) ==
    Len(ListOf(options, "selectedTopics")) > 0 =>
        \E i \in 1..Len(ListOf(options, "selectedTopics")) :
            ArrayIncludes(d.topics.v, ListOf(options, "selectedTopics")[i])
StartSatisfied(d, options) ==
    Truthy(Get(options, "startDate")) =>
        /\ d.date # Null
        /\ CalendarDay(d.date) >= CalendarDay(Get(options, "startDate"))
EndSatisfied(d, options) ==
    Truthy(Get(options, "endDate")) =>
        /\ d.date # Null
        /\ CalendarDay(d.date) <= CalendarDay(Get(options, "endDate"))
JurisdictionSatisfied(d, options) ==
    Len(ListOf(options, "jurisdictions")) > 0 =>
        ArrayIncludes(ListOf(options, "jurisdictions"), d.jurisdiction)
SourceSatisfied(d, options) ==
    Len(ListOf(options, "sources")) > 0 =>
        ArrayIncludes(ListOf(options, "sources"), d.source)
FavoriteSatisfied(d, options) ==
    Truthy(Get(options, "favoritesOnly")) => d.isFavorite = Bool(TRUE)

Satisfies(d, options) ==
    /\ TextSatisfied(d, options)
    /\ TopicsSatisfied(d, options)
    /\ StartSatisfied(d, options)
    /\ EndSatisfied(d, options)
    /\ JurisdictionSatisfied(d, options)
    /\ SourceSatisfied(d, options)
    /\ FavoriteSatisfied(d, options)

OnlyDateBounds(options) ==
    /\ ~NonBlank(QueryOf(options))
    /\ Len(ListOf(options, "selectedTopics")) = 0
    /\ Len(ListOf(options, "jurisdictions")) = 0
    /\ Len(ListOf(options, "sources")) = 0
    /\ ~Truthy(Get(options, "favoritesOnly"))

Searched == qpc = "searched"
Sorted == qpc = "sorted"

\* C1: a search that returns gives back exactly the records that satisfy
\* every active criterion, in their input order
C1_ExactlyTheMatchingRecords ==
    (Searched /\ ~qResult.threw) =>
        qResult.value =
            Filter(qDocuments, [i \in 1..Len(qDocuments) |->
                                  Satisfies(qDocuments[i], qOptions)])

\* C3: with a date bound active, no record whose date is null is in the result
C3_NullDateExcluded ==
    (/\ Searched /\ ~qResult.threw
     /\ Truthy(Get(qOptions, "startDate")) \/ Truthy(Get(qOptions, "endDate"))) =>
        \A i \in 1..Len(qResult.value) : qResult.value[i].date # Null

\* the key a sort orders by, and the order of two keys that are both known
KeyOf(d, sortBy) ==
    IF sortBy \in {Str("title"), Str("jurisdiction"), Str("source")}
    THEN d[sortBy.v] ELSE d.date
Known(d, sortBy) == KeyOf(d, sortBy) \notin {Null, Undefined}
KeyCompare(a, b, sortBy) ==
    IF sortBy \in {Str("title"), Str("jurisdiction"), Str("source")}
    THEN localeCompare(Chars(KeyOf(a, sortBy).v), Chars(KeyOf(b, sortBy).v))
    ELSE DateTime(a.date) - DateTime(b.date)

\* no record with a known key comes after one with a greater (ascending) or a
\* smaller (descending) known key
InOrder(value, sortBy, order) ==
    \A i \in 1..Len(value), j \in 1..Len(value) :
        (i < j /\ Known(value[i], sortBy) /\ Known(value[j], sortBy)) =>
            IF order = Str("asc")
            THEN KeyCompare(value[i], value[j], sortBy) <= 0
            ELSE KeyCompare(value[i], value[j], sortBy) >= 0

Rearrangements(n) ==
    {f \in [1..n -> 1..n] : \A i \in 1..n, j \in 1..n : f[i] = f[j] => i = j}

\* value is the input rearranged, records with equal keys in their input order
StableRearrangement(value, documents, sortBy) ==
    /\ Len(value) = Len(documents)
    /\ \E f \in Rearrangements(Len(documents)) :
          /\ \A i \in 1..Len(value) : value[i] = documents[f[i]]
          /\ \A i \in 1..Len(value), j \in 1..Len(value) :
                (/\ i < j
                 /\ Known(value[i], sortBy) /\ Known(value[j], sortBy)
                 /\ KeyCompare(value[i], value[j], sortBy) = 0) => f[i] < f[j]

\* C5: a sort returns the input rearranged in the order of the chosen key and
\* direction, records with equal keys in their input order
C5_StableSortedPermutation ==
    (Sorted /\ qSortBy # Undefined /\ qOrder # Undefined) =>
        /\ ~qResult.threw
        /\ InOrder(qResult.value, qSortBy, qOrder)
        /\ StableRearrangement(qResult.value, qDocuments, qSortBy)

\* C6 as claimed: without a direction the order is descending for date and
\* ascending for title, jurisdiction and source; without a key it is by date
C6_DefaultDirectionByKey ==
    (Sorted /\ qOrder = Undefined /\ ~qResult.threw) =>
        IF DefaultSortBy(qSortBy) = Str("date")
        THEN InOrder(qResult.value, Str("date"), Str("desc"))
        ELSE InOrder(qResult.value, qSortBy, Str("asc"))

\* C6 amended: without a direction the call is the call with direction 'desc'
\* whatever the key, and without a key it is the call with key 'date'
C6_DefaultDescending ==
    /\ (Sorted /\ qOrder = Undefined) =>
          /\ \E pivotFirst \in BOOLEAN :
                qResult = sortDocuments(qDocuments, qSortBy, Str("desc"), pivotFirst)
          /\ ~qResult.threw =>
                InOrder(qResult.value, DefaultSortBy(qSortBy), Str("desc"))
    /\ (Sorted /\ qSortBy = Undefined) =>
          /\ \E pivotFirst \in BOOLEAN :
                qResult = sortDocuments(qDocuments, Str("date"), qOrder, pivotFirst)
          /\ ~qResult.threw =>
                InOrder(qResult.value, Str("date"), DefaultOrder(qSortBy, qOrder))

C6_Witness ==
    /\ Sorted /\ qOrder = Undefined /\ qSortBy = Str("title")
    /\ ~qResult.threw
    /\ Len(qResult.value) = 2
    /\ Known(qResult.value[1], qSortBy) /\ Known(qResult.value[2], qSortBy)
    /\ KeyCompare(qResult.value[1], qResult.value[2], qSortBy) > 0
    /\ qResult.value[1] = qDocuments[2]

\* C8: a search with a non-blank query on options that have every field, and
\* a sort by any key, do not throw
C8_NoThrow ==
    (\/ Sorted
     \/ (/\ Searched /\ DOMAIN qOptions.v = OptionKeys
         /\ NonBlank(QueryOf(qOptions)))) => ~qResult.threw

\* C9: a search on options that lack fields is the search on the options with
\* the missing fields at their defaults, and without a text query it does not throw
C9_AbsentIsInactive ==
    Searched =>
        /\ qResult = searchDocuments(qDocuments, FilterOptions(qOptions))
        /\ ~NonBlank(QueryOf(qOptions)) => ~qResult.threw

\* C10: with only date bounds active, a dated record is kept iff its calendar
\* day is on or after the day of startDate and on or before the day of endDate
C10_CalendarDayBounds ==
    (Searched /\ ~qResult.threw /\ OnlyDateBounds(qOptions)) =>
        \A i \in 1..Len(qDocuments) :
            qDocuments[i].date # Null =>
                (ArrayIncludes(qResult.value, qDocuments[i])
                    <=> /\ StartSatisfied(qDocuments[i], qOptions)
                        /\ EndSatisfied(qDocuments[i], qOptions))

\* where a sort returns, its result is the stable rearrangement in key order
SortedWhereReturned ==
    (Sorted /\ ~qResult.threw) =>
        /\ InOrder(qResult.value, DefaultSortBy(qSortBy), DefaultOrder(qSortBy, qOrder))
        /\ StableRearrangement(qResult.value, qDocuments, DefaultSortBy(qSortBy))

\* only the text criterion can be active: the options have every field, and
\* no list, date bound or favorites flag is set
OnlyText(options) ==
    /\ DOMAIN options.v = OptionKeys
    /\ Len(ListOf(options, "selectedTopics")) = 0
    /\ Len(ListOf(options, "jurisdictions")) = 0
    /\ Len(ListOf(options, "sources")) = 0
    /\ ~Truthy(Get(options, "startDate"))
    /\ ~Truthy(Get(options, "endDate"))
    /\ ~Truthy(Get(options, "favoritesOnly"))

\* the records of the collection that contain the query in one of the four
\* fields, lower-cased; all of them when the query is blank
TextMatches(documents, options) ==
    Filter(documents, [i \in 1..Len(documents) |-> TextSatisfied(documents[i], options)])

\* C11: with only the text criterion active, the search keeps exactly the
\* records one of whose lower-cased title, content, source and jurisdiction
\* contains the lower-cased query, and keeps every record when the query is
\* empty or white space
C11_TextStage ==
    (Searched /\ OnlyText(qOptions)) =>
        /\ ~qResult.threw
        /\ qResult.value = TextMatches(qDocuments, qOptions)

\* where the text stage returns, it keeps exactly those records
TextStageWhereReturned ==
    (Searched /\ OnlyText(qOptions) /\ ~qResult.threw) =>
        qResult.value = TextMatches(qDocuments, qOptions)

\* a text search that returns, keeping one record and dropping another
TextStageActs ==
    /\ Searched /\ OnlyText(qOptions) /\ ~qResult.threw
    /\ NonBlank(QueryOf(qOptions))
    /\ Len(qDocuments) = 2 /\ Len(qResult.value) = 1

(***************************************************************************)
(* Properties of the normalizer: topics                                    *)
(***************************************************************************)
\* the object the constructor was given: the mapped row for a fetched record
Given == IF dpc = "fetched" THEN MapRow(raw) ELSE raw

Built == dpc \in {"document", "fetched"}

\* the names the two topic lists of the input supply, the flat list first
\* (a missing flat list is the empty list; a list that is no array supplies none)
SuppliedTopics ==
    LET flat == OptGet(Given, "topics")
        related == OptGet(Given, "document_topics")
    IN  (IF IsArray(flat) THEN Collect(flat.v) ELSE << >>)
        \o (IF IsArray(related) THEN Collect(related.v) ELSE << >>)

Occurrences(seq, x) == Cardinality({i \in 1..Len(seq) : seq[i] = x})

\* C12: the topics of a canonical record are the names its input supplies,
\* each once, in the order of their first occurrence with the flat list
\* before the relational list; a fetched row, whose names come both as topics
\* and as document_topics, has each name once
C12_TopicsOnceInFirstSeenOrder ==
    Built =>
        LET topics == doc.topics.v
        IN  /\ \A i \in 1..Len(topics) : Occurrences(topics, topics[i]) = 1
            /\ \A i \in 1..Len(SuppliedTopics) :
                  Occurrences(topics, SuppliedTopics[i]) = 1
            /\ \A i \in 1..Len(topics) : Occurrences(SuppliedTopics, topics[i]) >= 1
            /\ \A i \in 1..Len(topics), j \in 1..Len(topics) :
                  i < j => IndexOf(SuppliedTopics, topics[i])
                              < IndexOf(SuppliedTopics, topics[j])

\* a fetched row with two topic relations: four names supplied, two kept
C12_Witness ==
    /\ dpc = "fetched"
    /\ Len(SuppliedTopics) = 4
    /\ doc.topics = Arr(<<Str("Climate"), Str("Budget")>>)

(***************************************************************************)
(* Properties of the normalizer: jurisdiction, date and source             *)
(***************************************************************************)
Supplied(k) == OptGet(Given, k) \notin {Undefined, Null}

\* the name of a canonical state or country; unknown when there is none
NameOf(place) == OptGet(place, "name")
Unknown(name) == ~Truthy(name)

\* C13: a supplied jurisdiction is used unchanged; otherwise the jurisdiction
\* is the state's name, a comma and a space, and the country's name, without
\* the country's name when it is the state's, and without a part that is unknown
C13_JurisdictionDerived ==
    Built =>
        LET s == NameOf(doc.state)
            c == NameOf(doc.country)
        IN  IF Supplied("jurisdiction")
            THEN doc.jurisdiction = Get(Given, "jurisdiction")
            ELSE doc.jurisdiction =
                    (IF Unknown(s) /\ Unknown(c) THEN Str("")
                     ELSE IF Unknown(s) THEN c
                     ELSE IF Unknown(c) \/ c = s THEN s
                     ELSE Str(s.v \o ", " \o c.v))

\* a state and a country of different names, and no jurisdiction supplied
C13_Witness ==
    /\ dpc = "document"
    /\ ~Supplied("jurisdiction")
    /\ NameOf(doc.state) = Str("Maryland")
    /\ NameOf(doc.country) = Str("United States")
    /\ doc.jurisdiction = Str("Maryland, United States")

\* the first of the values that is not null or undefined; null when there is none
RECURSIVE FirstNonNull(_)
FirstNonNull(values) ==
    IF Len(values) = 0 THEN Null
    ELSE IF Head(values) \notin {Undefined, Null} THEN Head(values)
    ELSE FirstNonNull(Tail(values))

\* the first of the values that is truthy; null when there is none
RECURSIVE FirstTruthy(_)
FirstTruthy(values) ==
    IF Len(values) = 0 THEN Null
    ELSE IF Truthy(Head(values)) THEN Head(values)
    ELSE FirstTruthy(Tail(values))

DateAliases ==
    <<OptGet(Given, "date"), OptGet(Given, "document_date"), OptGet(Given, "documentDate")>>

\* C14 as claimed: the date is the first of date, document_date and
\* documentDate that is not null, and null when all three are absent
C14_FirstNonNullDate ==
    Built => doc.date = FirstNonNull(DateAliases)

\* C14 amended: the date is the first of date, document_date and documentDate
\* that is neither null nor the empty string, and null when there is none
C14_FirstTruthyDate ==
    Built => doc.date = FirstTruthy(DateAliases)

\* an empty document_date is passed over for documentDate
C14_Witness ==
    /\ dpc = "document"
    /\ OptGet(Given, "date") = Undefined
    /\ OptGet(Given, "document_date") = Str("")
    /\ OptGet(Given, "documentDate") = Str("2024-10-15")
    /\ doc.date = Str("2024-10-15")

\* C15: the source is the raw source when that is a string, its name when it
\* is an object with a name, otherwise the first of source_name and sourceName
\* that is not null, otherwise null
C15_SourceResolution ==
    Built =>
        LET source == OptGet(Given, "source")
        IN  doc.source =
                (IF source.t = "string" THEN source
                 ELSE IF source.t = "object" /\ Get(source, "name") \notin {Undefined, Null}
                 THEN Get(source, "name")
                 ELSE FirstNonNull(<<OptGet(Given, "source_name"),
                                     OptGet(Given, "sourceName")>>))

\* an object with a name wins over a flattened name
C15_Witness ==
    /\ dpc = "document"
    /\ OptGet(Given, "source") = CountyCouncil
    /\ OptGet(Given, "source_name") = Str("Planning Commission")
    /\ doc.source = Str("County Council")

(***************************************************************************)
(* Properties of the normalizer: the shapes of a topic                     *)
(***************************************************************************)
\* the elements of the two topic lists of the input, the flat list first
SuppliedElements ==
    LET flat == OptGet(Given, "topics")
        related == OptGet(Given, "document_topics")
    IN  (IF IsArray(flat) THEN flat.v ELSE << >>)
        \o (IF IsArray(related) THEN related.v ELSE << >>)

\* a string that names a topic, and an object with a name
IsName(x) == x.t = "string" /\ x.v # ""
HasName(x) == x.t = "object" /\ Truthy(Get(x, "name"))

\* a wrapper: an object without a name whose nested topic is a name or has one
IsWrapper(x) ==
    /\ x.t = "object" /\ ~HasName(x)
    /\ IsName(Get(x, "topic")) \/ HasName(Get(x, "topic"))

\* a wrapper whose nested topic is itself an object with a nested topic
IsNestedWrapper(x) ==
    /\ x.t = "object" /\ ~HasName(x)
    /\ Get(x, "topic").t = "object" /\ ~HasName(Get(x, "topic"))
    /\ Truthy(Get(Get(x, "topic"), "topic"))

\* the names an element of one of the three shapes stands for
NamesOf(x) ==
    IF IsName(x) THEN {x}
    ELSE IF HasName(x) THEN {Get(x, "name")}
    ELSE IF IsWrapper(x) /\ IsName(Get(x, "topic")) THEN {Get(x, "topic")}
    ELSE IF IsWrapper(x) THEN {Get(Get(x, "topic"), "name")}
    ELSE {}

FetchedWithNesting ==
    /\ dpc = "fetched"
    /\ Truthy(OptGet(Get(raw, "source"), "state"))
    /\ Truthy(OptGet(OptGet(Get(raw, "source"), "state"), "country"))

\* the source, state, country and jurisdiction of such a record come from the nesting
FetchedPlaces ==
    FetchedWithNesting =>
        LET source == Get(raw, "source")
            state == Get(source, "state")
            country == Get(state, "country")
        IN  /\ doc.source = Get(source, "name")
            /\ doc.state = state
            /\ doc.country = country
            /\ doc.jurisdiction =
                  Str(Get(state, "name").v \o ", " \o Get(country, "name").v)

\* C17: a record fetched from the cloud store has its source, state, country
\* and jurisdiction from the nested source, and its sourceId and sourceType
\* are the nested source's id and source_type
C17_FetchedRowPopulated ==
    /\ FetchedPlaces
    /\ FetchedWithNesting =>
          /\ doc.sourceId = Get(Get(raw, "source"), "id")
          /\ doc.sourceType = Get(Get(raw, "source"), "source_type")

\* what the constructor does with such a row: sourceId and sourceType are null
FetchedSourceIdNull ==
    FetchedWithNesting => doc.sourceId = Null /\ doc.sourceType = Null

(***************************************************************************)
(* Properties of the cloud update mapping                                  *)
(***************************************************************************)
\* the number of the aliases that the updates carry
Carried(aliases) ==
    Cardinality({a \in aliases : Given # Undefined /\ In(a, Given)})

\* C18: when the updates carry more than one alias of a field, the value the
\* cloud update mapping writes is the value the normalizer chooses from them
C18_SamePrecedence ==
    dpc = "mapped" =>
        /\ Carried({"date", "document_date", "documentDate"}) > 1 =>
              json.v.document_date = doc.date
        /\ Carried({"source_id", "sourceId"}) > 1 => json.v.source_id = doc.sourceId
        /\ Carried({"isFavorite", "is_favorite"}) > 1 =>
              json.v.is_favorite = doc.isFavorite
        /\ Carried({"createdAt", "created_at"}) > 1 =>
              json.v.created_at = doc.createdAt

\* the two aliases of isFavorite and of createdAt are read in the same order
SamePrecedenceForFavoriteAndCreated ==
    dpc = "mapped" =>
        /\ Carried({"isFavorite", "is_favorite"}) > 1 =>
              json.v.is_favorite = doc.isFavorite
        /\ Carried({"createdAt", "created_at"}) > 1 =>
              json.v.created_at = doc.createdAt

(***************************************************************************)
(* Properties of the query engine: the inputs of a call                    *)
(***************************************************************************)
\* C19: after a search or a sort the input collection has the length, the
\* elements and the order it was given with, and after a search the options
\* are the options that were given
C19_InputsUnchanged ==
    /\ (Searched \/ Sorted) =>
          /\ Len(qDocuments) = Len(qGiven.documents)
          /\ \A i \in 1..Len(qDocuments) : qDocuments[i] = qGiven.documents[i]
    /\ Searched => qOptions = qGiven.options

\* a sort that returned the records in another order than the input's
C19_Witness ==
    /\ Sorted /\ ~qResult.threw
    /\ Len(qGiven.documents) = 2
    /\ qResult.value = <<qGiven.documents[2], qGiven.documents[1]>>
    /\ qResult.value # qGiven.documents
    /\ qDocuments = qGiven.documents

(***************************************************************************)
(* Properties of the controller: the listed topics, jurisdictions, sources *)
(***************************************************************************)
Elements(seq) == {seq[i] : i \in 1..Len(seq)}

\* each value once, and strings in the ascending order of their code units
OnceAscending(list) ==
    /\ \A i \in 1..Len(list) : Occurrences(list, list[i]) = 1
    /\ \A i \in 1..Len(list), j \in 1..Len(list) :
          (i < j /\ list[i].t = "string" /\ list[j].t = "string") =>
              CodeUnitCompare(Chars(list[i].v), Chars(list[j].v)) < 0

\* C20: whatever was added, updated, deleted and reloaded before, what
\* getAllTopics, getAllJurisdictions and getAllSources return are the values
\* of the current collection (the topics of all its records), each once, in
\* ascending order
C20_ListsReflectCollection ==
    cpc = "listed" =>
        /\ Elements(cListed.topics) =
              UNION {Elements(cDocuments[i].topics.v) : i \in 1..Len(cDocuments)}
        /\ Elements(cListed.jurisdictions) =
              {cDocuments[i].jurisdiction : i \in 1..Len(cDocuments)}
        /\ Elements(cListed.sources) =
              {cDocuments[i].source : i \in 1..Len(cDocuments)}
        /\ OnceAscending(cListed.topics)
        /\ OnceAscending(cListed.jurisdictions)
        /\ OnceAscending(cListed.sources)

\* two records added, whose topics overlap and were not given in ascending order
C20_Witness ==
    /\ cpc = "listed" /\ cOps >= 2 /\ Len(cDocuments) >= 2
    /\ cListed.topics = <<Str("Tax"), Str("Zoo"), Str("tax")>>
    /\ cListed.sources = <<Str("City"), Null>>

\* every stored element has an id and a created_at, and every record of the
\* collection an id and a createdAt
StoredCarryIdAndCreatedAt ==
    /\ \A i \in 1..Len(cStore) :
          Truthy(Get(cStore[i], "id")) /\ Truthy(Get(cStore[i], "created_at"))
    /\ \A i \in 1..Len(cDocuments) :
          Truthy(cDocuments[i].id) /\ Truthy(cDocuments[i].createdAt)

\* the serialized form of a document has its id and its created_at
SerializedCarryIdAndCreatedAt ==
    dpc \in {"json", "normalized", "loaded"} =>
        /\ Get(json, "id") = doc.id /\ Truthy(doc.id)
        /\ Get(json, "created_at") = doc.createdAt /\ Truthy(doc.createdAt)
        /\ dpc # "json" => reloaded.id = doc.id /\ reloaded.createdAt = doc.createdAt

(***************************************************************************)
(* Properties of FilterOptions                                             *)
(***************************************************************************)
\* the fields hold values of their types: a string, lists, dates or null,
\* a boolean
WellTyped(options) ==
    /\ options.v.searchQuery.t = "string"
    /\ \A k \in {"selectedTopics", "jurisdictions", "sources"} :
          options.v[k].t = "array"
    /\ \A k \in {"startDate", "endDate"} : options.v[k].t \in {"null", "string"}
    /\ options.v.favoritesOnly.t = "boolean"

\* at least one of the seven fields is not its default
Deviates(options) == \E k \in OptionKeys : options.v[k] # OptionDefault(k)

\* C23: hasActiveFilters() of an object whose fields hold values of their
\* types returns true when at least one of the seven fields differs from its
\* default, and false when none does
C23_ActiveIffDeviates ==
    (fActive # Undefined /\ WellTyped(fObject)) =>
        fActive = Returned(Bool(Deviates(fObject)))

\* asked of an object whose only deviation is a blank search text
C23_Witness ==
    /\ fActive = Returned(Bool(TRUE))
    /\ fObject.v.searchQuery = Str(" ")
    /\ \A k \in OptionKeys \ {"searchQuery"} : fObject.v[k] = OptionDefault(k)

\* C24: after reset(), whatever the object held before, each of the seven
\* fields of the object is its default and hasActiveFilters() returns false
C24_ResetRestoresDefaults ==
    fLast = "reset" =>
        /\ \A k \in OptionKeys : fObject.v[k] = OptionDefault(k)
        /\ fActive # Undefined => fActive = Returned(Bool(FALSE))

\* reset of an object with a null search text and favoritesOnly set, and
\* hasActiveFilters asked after it
C24_Witness ==
    /\ fLast = "reset"
    /\ fBefore.v.searchQuery = Null
    /\ fBefore.v.favoritesOnly = Bool(TRUE)
    /\ fActive = Returned(Bool(FALSE))

(***************************************************************************)
(* Properties of the local store under calls made one after the other      *)
(***************************************************************************)
\* the ids of the stored array, in its order
StoredIds(stored) == [i \in 1..Len(stored) |-> Get(stored[i], "id")]

\* the call has returned to the controller
HasReturned(call) == call.pc \in {"returned", "done"}

\* the document the call of updateDocument or toggleFavorite was made on
Previous(call) == call.read[findIndex(call.read, call.id)]

\* C21: whatever updateDocument or toggleFavorite is given, the ids in the
\* store are after the call what they were before it, the document returned
\* has the id the call was made on, and a load gives every document the id
\* that was saved
C21_IdNeverChanges ==
    /\ \A c \in Calls :
          (HasReturned(oCalls[c]) /\ oCalls[c].op \in {"update", "toggle"}) =>
              /\ StoredIds(oStore) = StoredIds(oCalls[c].stored)
              /\ oCalls[c].returned # Null => oCalls[c].returned.id = oCalls[c].id
    /\ \A i \in 1..Len(oStore) :
          storedDocuments(oStore)[i].id = Get(oStore[i], "id")

\* the same, for the calls whose updates do not name the id
IdKeptUnlessNamed ==
    /\ \A c \in Calls :
          (/\ HasReturned(oCalls[c]) /\ oCalls[c].op \in {"update", "toggle"}
           /\ Get(oCalls[c].arg, "id") = Undefined) =>
              /\ StoredIds(oStore) = StoredIds(oCalls[c].stored)
              /\ oCalls[c].returned # Null => oCalls[c].returned.id = oCalls[c].id
    /\ \A i \in 1..Len(oStore) :
          storedDocuments(oStore)[i].id = Get(oStore[i], "id")

\* C22: after any calls of addDocument, updateDocument, toggleFavorite and
\* deleteDocument, no two documents of the stored collection have the same id
C22_IdsUnique ==
    Quiet => \A i \in 1..Len(oStore), j \in 1..Len(oStore) :
                i # j => Get(oStore[i], "id") # Get(oStore[j], "id")

\* the field of the canonical record that a name of the raw record is for
CanonicalField(k) ==
    CASE k \in {"date", "document_date", "documentDate"} -> "date"
      [] k \in {"isFavorite", "is_favorite"} -> "isFavorite"
      [] k \in {"createdAt", "created_at"} -> "createdAt"
      [] k \in {"sourceId", "source_id"} -> "sourceId"
      [] k \in {"source", "source_name"} -> "source"
      [] OTHER -> k

\* the returned record, and the stored one when the write went through, have
\* the values of the updates whose names are in keys, and what the updates
\* do not name is as it was
UpdateApplied(call, keys) ==
    LET updates == call.arg.v
        named == {CanonicalField(k) : k \in DOMAIN updates}
        index == findIndex(call.read, call.id)
    IN  /\ \A k \in DOMAIN updates \cap keys :
              /\ call.returned[CanonicalField(k)] = updates[k]
              /\ call.written =>
                    storedDocuments(oStore)[index][CanonicalField(k)] = updates[k]
        /\ \A f \in DocKeys \ named : call.returned[f] = Previous(call)[f]

\* C28: when updateDocument(id, updates) returns a record, every field that
\* updates supplies, under whichever of its names, has the supplied value in
\* the returned and in the stored record, and every other field has the
\* value it had
C28_UpdatesApplied ==
    \A c \in Calls :
        (/\ HasReturned(oCalls[c]) /\ oCalls[c].op = "update"
         /\ oCalls[c].returned # Null) =>
            UpdateApplied(oCalls[c], ParamKeys)

\* the same holds of the updates supplied as date, source_id and id
AppliedUnderWinningName ==
    \A c \in Calls :
        (/\ HasReturned(oCalls[c]) /\ oCalls[c].op = "update"
         /\ oCalls[c].returned # Null) =>
            UpdateApplied(oCalls[c], {"date", "source_id", "id"})

\* C29: addDocument and updateDocument return a document only when the
\* collection with that document was written, and null when the write failed
C29_ReturnedOnlyIfWritten ==
    \A c \in Calls :
        (HasReturned(oCalls[c]) /\ oCalls[c].op \in {"add", "update"}) =>
            (oCalls[c].returned # Null => oCalls[c].written)

Mutating == {"add", "update", "toggle", "delete"}

\* the stored array after the call c, with its arguments and the outcome of
\* its write, has run from its first step to its last on the array stored
AloneOn(c, stored) ==
    LET read == storedDocuments(stored)
        call == oCalls[c]
        found == Found(read, call.id)
        asRead ==
            IF call.op = "toggle" /\ found
            THEN [call EXCEPT !.read = read,
                              !.arg = Obj([isFavorite |->
                                  Bool(~read[findIndex(read, call.id)].isFavorite.v)])]
            ELSE [call EXCEPT !.read = read]
        writes ==
            CASE call.op = "add" -> ~DocumentThrows(call.arg)
              [] call.op \in {"update", "toggle"} -> found
              [] call.op = "delete" -> TRUE
    IN  IF writes
        THEN setItem(stored, savedDocuments(ToSave(asRead, CallGid(c))), call.written)
        ELSE stored

\* both calls have been made and have run to their ends
BothDone == \A c \in Calls : oCalls[c].pc = "done"

\* C26: when two calls of addDocument, updateDocument, toggleFavorite or
\* deleteDocument overlap, in whichever way their steps interleave, the
\* stored collection is in the end what it is after the one call and then
\* the other, in one of the two orders
C26_AsOneAfterTheOther ==
    (BothDone /\ \A c \in Calls : oCalls[c].op \in Mutating) =>
        LET start == oCalls[1].stored
        IN  oStore \in {AloneOn(2, AloneOn(1, start)), AloneOn(1, AloneOn(2, start))}

\* the ids of the documents state, and those of the stored collection
IdsHeld == {oDocuments[i].id : i \in 1..Len(oDocuments)}
IdsStored == {Get(oStore[i], "id") : i \in 1..Len(oStore)}

\* C27: once no call is in flight, and no write has failed, the ids of the
\* controller's documents are the ids of the stored collection
C27_SameIdsWhenQuiet ==
    (Quiet /\ \A c \in Calls : oCalls[c].written) => IdsHeld = IdsStored

(***************************************************************************)
(* Properties of the controller's filtered documents                       *)
(***************************************************************************)
\* filteredDocuments is what sortDocuments returns for what searchDocuments
\* returns, for the states as they are
FilteredIsCurrent ==
    \E pivotFirst \in BOOLEAN :
        applyFilters(oDocuments, oFilterOptions, oSortBy, oSortOrder, pivotFirst)
            = Returned(oFiltered)

\* C25: once the operations of the controller (load, add, update, delete,
\* toggle favorite, updateFilters, resetFilters, updateSort) have settled,
\* filteredDocuments is sortDocuments(searchDocuments(documents,
\* filterOptions), sortBy, sortOrder) for the current documents,
\* filterOptions, sortBy and sortOrder
C25_FilteredIsCurrent == Quiet => FilteredIsCurrent

\* the same, as long as applyFilters has not thrown
FilteredWhereMounted == (Quiet /\ oView = "mounted") => FilteredIsCurrent

====
